---- MODULE Spec2Model ----
(***************************************************************************)
(* Execution and deduplication engine of scraper-cr (scraping_manager):    *)
(* TaskExecutor.execute_task / run_in_container (executors.py), the        *)
(* Celery tasks run_scraping_task / run_scraping_group /                   *)
(* send_group_completion_email (tasks.py) and the tables ScrapingGroup,    *)
(* ScrapingTask, TaskRun, ScrapedItem (models.py); test_scraping_task,     *)
(* generate_hash (common/utils.py), and the execute command of apps/tasks  *)
(* with its worker task execute_scraper_task.                              *)
(*                                                                         *)
(* Every database statement of execute_task is one atomic step; Celery     *)
(* workers are separate processes, so steps of different invocations       *)
(* interleave freely.                                                      *)
(***************************************************************************)
EXTENDS Integers, Sequences, FiniteSets, TLC

(* ------------------------------ bounds -------------------------------- *)
\* number of run_scraping_task invocations (each creates at most one TaskRun)
MaxInv == 3
\* number of RunJob commands, whose runs may all overlap
MaxDirect == 2
\* number of run_scraping_group invocations
MaxGroupInv == 1
\* size of the dicts and of the field lists generate_hash is applied to
MaxFields == 2
\* largest number of worker processes
MaxWorkers == 2
\* number of deliveries of one execute_scraper_task message
MaxDeliveries == 2
\* number of scheduled triggers
MaxTriggers == 2

(* -------------------------- program constants ------------------------- *)
\* container.wait(timeout=300)
WaitTimeout == 300
\* ScrapedItem.times_seen = IntegerField(default=1)
DefaultTimesSeen == 1

Inv == 1..MaxInv
GInv == 1..MaxGroupInv

(* ------------------------------ tables -------------------------------- *)
\* ScrapingTask rows present in the database
TaskIds == {1, 2, 3, 4, 5}
\* an id for which ScrapingTask.objects.get raises DoesNotExist
MissingTaskId == 1 + Cardinality(TaskIds)
GroupIds == {1, 2}
MissingGroupId == 1 + Cardinality(GroupIds)

\* TaskRun.STATUS_CHOICES
Statuses == {"PENDING", "RUNNING", "SUCCESS", "FAILED", "TIMEOUT"}
Terminal == {"SUCCESS", "FAILED", "TIMEOUT"}

\* generated_code, by what the structural checks can see of it
CodeKinds == {"ok", "empty", "noentry"}

\* DEFAULT hash fields of execute_task (line 43)
DefaultHashFields == {"title", "url", "description"}

(* ------------------------------ records ------------------------------- *)
\* item_data values a routine can emit; isdict = FALSE is a JSON value that
\* is not an object (generate_hash raises TypeError on it)
D1 == [isdict |-> TRUE, kv |-> [title |-> 1, url |-> 1]]
D2 == [isdict |-> TRUE, kv |-> [title |-> 2, url |-> 1]]
D3 == [isdict |-> TRUE, kv |-> [title |-> 1, url |-> 1, price |-> 9]]
DBad == [isdict |-> FALSE, kv |-> [title |-> 0]]

\* the outputs ("data" lists) the modelled routines emit
DataLists == {<<>>, <<D1>>, <<D1, D3, D1>>, <<D2, DBad>>}
\* ... of routines that emit well-formed records only
CleanLists == {<<D1>>, <<D3, D1>>}

\* generate_hash(data, fields): the selected fields that are present, as a
\* key-sorted canonical dict; SHA-256 is taken to be injective on these
generate_hash(data, fields) ==
    [f \in (fields \cap DOMAIN data.kv) |-> data.kv[f]]

(* ---------------------------- generate_hash --------------------------- *)
\* common/utils.py, statement by statement.  A Python dict is the sequence
\* of its <<key, value>> pairs in insertion order; a field list is a
\* sequence of keys.
HashKeys == {"title", "url", "price"}
\* the key-value pairs of the modelled records (those of D1, D2, D3)
HashPairs == {<<"title", 1>>, <<"title", 2>>, <<"url", 1>>, <<"price", 9>>}
\* the keys as json.dumps(sort_keys=True) orders them
SortedKeys == <<"price", "title", "url">>

\* `field in data`
HasKey(d, k) == \E n \in 1..Len(d) : d[n][1] = k
\* `data[field]`
Lookup(d, k) == LET n == CHOOSE m \in 1..Len(d) : d[m][1] = k IN d[n][2]

\* lines 19-22: hash_data = {}; for field in fields: if field in data:
\* hash_data[field] = data[field].  Assigning to a key the dict already
\* holds keeps the key's position.
RECURSIVE hash_data(_, _)
hash_data(data, fields) ==
    IF fields = <<>> THEN <<>>
    ELSE LET before == hash_data(data, SubSeq(fields, 1, Len(fields) - 1))
             field == fields[Len(fields)]
         IN  IF ~HasKey(data, field) \/ HasKey(before, field) THEN before
             ELSE Append(before, <<field, Lookup(data, field)>>)

\* a dict serialised in insertion order: the text is the pair sequence
json_dumps_insertion_order(d) == d

\* line 25: json.dumps(hash_data, sort_keys=True): the pairs by sorted key
json_dumps(d) ==
    LET ks == SelectSeq(SortedKeys, LAMBDA k : HasKey(d, k))
    IN  [n \in 1..Len(ks) |-> <<ks[n], Lookup(d, ks[n])>>]

\* line 26: sha256(...).hexdigest(), taken to be injective on the text
sha256(text) == text

\* generate_hash, on dicts and field lists with their order
generate_hash_ordered(data, fields) == sha256(json_dumps(hash_data(data, fields)))

\* the dicts with distinct keys, of every size and key order
Dicts ==
    {d \in UNION {[1..n -> HashPairs] : n \in 0..MaxFields} :
        \A a \in 1..Len(d) : \A b \in 1..Len(d) : d[a][1] = d[b][1] => a = b}
\* the field lists, repeated fields included
FieldLists == UNION {[1..n -> HashKeys] : n \in 0..MaxFields}

Range(s) == {s[n] : n \in 1..Len(s)}

NoHashQuery ==
    [asked |-> FALSE, data1 |-> <<>>, fields1 |-> <<>>, data2 |-> <<>>,
     fields2 |-> <<>>, done |-> FALSE, hash1 |-> <<>>, hash2 |-> <<>>]

VARIABLES
    tasks,       \* ScrapingTask table: id -> row
    groups,      \* ScrapingGroup table: id -> row
    taskRuns,    \* TaskRun table: invocation -> row (exists = FALSE: no row)
    items,       \* ScrapedItem table: set of rows
    nextItemId,  \* ScrapedItem primary-key sequence
    now,         \* timezone.now()
    pc,          \* position of each run_scraping_task invocation
    arg,         \* its task_id argument
    ltask,       \* `task`: the in-memory ScrapingTask of the invocation
    lrun,        \* `task_run`: the in-memory TaskRun of the invocation
    result,      \* `result`: what run_in_container returned
    idx,         \* loop position in result['data']
    existing,    \* `existing_item`
    counts,      \* items_processed, new_items
    err,         \* the exception being handled ("" = none)
    outcome,     \* how run_scraping_task ended and what it returned
    sandbox,     \* per invocation: what became of the script file and of the
                 \* container, and what the container printed last
    parent,      \* the group invocation that dispatched the invocation (0: none)
    gpc,         \* position of each run_scraping_group invocation
    garg,        \* its group_id argument
    lgroup,      \* `group`: the in-memory ScrapingGroup of the invocation
    gtasks,      \* `tasks`: the evaluated queryset, a sequence of task ids
    gdisp,       \* the run_scraping_task invocations it dispatched, in order
    gresults,    \* `task_results`
    gout,        \* how run_scraping_group ended and what it returned
    events,      \* send_group_completion_email calls queued so far
    mails,       \* per handled call: the summary it computed, and if it was sent
    hq,          \* one generate_hash comparison: two calls and what they returned
    pool,        \* number of worker processes of the Celery worker
    executions,  \* apps/tasks: the TaskExecution row of the execute command
    view,        \* TaskViewSet.execute: position and in-memory `execution`
    deliv,       \* per delivery of execute_scraper_task: position, in-memory
                 \* `execution`, result of the scraper
    test,        \* the test_scraping_task invocation: position, argument, its
                 \* in-memory `task`, the run it called, how it ended
    atasks,      \* apps/tasks: Task table: id -> row
    sexecs,      \* apps/tasks: the TaskExecution rows of scheduled triggers
    sched        \* the execute_scheduled_scraper invocation: position,
                 \* argument, in-memory `task`, its execution, how it ended,
                 \* triggers so far, scrapers started so far

vars == <<tasks, groups, taskRuns, items, nextItemId, now, pc, arg, ltask,
          lrun, result, idx, existing, counts, err, outcome, sandbox, parent,
          gpc, garg, lgroup, gtasks, gdisp, gresults, gout, events, mails,
          hq, pool, executions, view, deliv, test, atasks, sexecs, sched>>

(* --------------------------- initial state ---------------------------- *)
\* models.py: a ScrapingTask row (the fields the engine reads or writes);
\* avg_execution_time is NULL (avg_null) or avg / AvgScale seconds
AvgScale == 2 ^ MaxInv

TaskRow(g, order, active, code, schema) ==
    [group |-> g, execution_order |-> order, is_active |-> active,
     generated_code |-> code, extraction_schema |-> schema,
     target_url |-> "url", avg_null |-> TRUE, avg |-> 0,
     test_status |-> "UNTESTED", last_test_at |-> -1]

InitTasks ==
    (1 :> TaskRow(1, 3, TRUE, "ok", {})
     @@ 2 :> TaskRow(1, 1, TRUE, "ok", {"title", "price"})
     @@ 3 :> TaskRow(1, 2, TRUE, "empty", {})
     @@ 4 :> TaskRow(1, 0, FALSE, "noentry", {})
     @@ 5 :> TaskRow(2, 0, TRUE, "ok", {}))

\* models.py: TaskRun; completed_at = -1 is NULL
NoRun ==
    [exists |-> FALSE, task |-> 0, status |-> "PENDING", started_at |-> 0,
     completed_at |-> -1, items_found |-> 0, error_message |-> ""]

\* models.py: ScrapedItem; id 0 stands for None
NoItem ==
    [id |-> 0, task |-> 0, run |-> 0, unique_hash |-> <<>>, data |-> D1,
     source_urls |-> <<>>, first_seen |-> 0, last_seen |-> 0, times_seen |-> 0]

NoResult == [success |-> FALSE, data |-> <<>>, error |-> "", haserror |-> FALSE]
NoSandbox ==
    [script |-> "none", created |-> FALSE, started |-> FALSE, removed |-> FALSE,
     expired |-> FALSE, exit |-> -1, haslogs |-> FALSE,
     msg |-> [present |-> FALSE, success |-> FALSE, data |-> <<>>, error |-> ""]]
NoOutcome ==
    [kind |-> "none", success |-> FALSE, items_found |-> 0, new_items |-> 0,
     error |-> ""]
NoCounts == [items_processed |-> 0, new_items |-> 0]
NoGroupOut == [kind |-> "none", tasks_run |-> 0, results |-> <<>>]

\* models.py: ScrapingGroup (run_parallel defaults to True)
GroupRow(par, emails) == [run_parallel |-> par, notification_emails |-> emails]

InitCommon ==
    /\ tasks = InitTasks
    /\ taskRuns = [i \in Inv |-> NoRun]
    /\ items = {}
    /\ nextItemId = 1
    /\ now = 0
    /\ pc = [i \in Inv |-> "idle"]
    /\ arg = [i \in Inv |-> 0]
    /\ ltask = [i \in Inv |-> InitTasks[1]]
    /\ lrun = [i \in Inv |-> NoRun]
    /\ result = [i \in Inv |-> NoResult]
    /\ idx = [i \in Inv |-> 0]
    /\ existing = [i \in Inv |-> NoItem]
    /\ counts = [i \in Inv |-> NoCounts]
    /\ err = [i \in Inv |-> ""]
    /\ outcome = [i \in Inv |-> NoOutcome]
    /\ sandbox = [i \in Inv |-> NoSandbox]
    /\ parent = [i \in Inv |-> 0]
    /\ gpc = [g \in GInv |-> "idle"]
    /\ garg = [g \in GInv |-> 0]
    /\ lgroup = [g \in GInv |-> GroupRow(FALSE, <<>>)]
    /\ gtasks = [g \in GInv |-> <<>>]
    /\ gdisp = [g \in GInv |-> <<>>]
    /\ gresults = [g \in GInv |-> <<>>]
    /\ gout = [g \in GInv |-> NoGroupOut]
    /\ events = <<>>
    /\ mails = <<>>

\* the database as the RunJob command finds it
\* no test_scraping_task invocation
NoTest ==
    [pc |-> "idle", arg |-> 0, task |-> InitTasks[1], inv |-> 0, out |-> "none"]

\* apps/tasks/models.py: TaskExecution (completed_at = -1 is NULL; handle:
\* metadata['celery_task_id']; code: generated_code of its task)
NoExecution ==
    [exists |-> FALSE, status |-> "pending", completed_at |-> -1,
     error_message |-> "", scraped_data |-> "none", handle |-> "", code |-> "valid"]
NoView == [pc |-> "idle", execution |-> NoExecution]
Deliveries == 1..MaxDeliveries
NoDelivery ==
    [pc |-> "idle", execution |-> NoExecution, routine |-> "none", result |-> "none"]

\* apps/tasks models.py, Task: the fields execute_scheduled_scraper uses
ATask(active, code) ==
    [is_active |-> active, generated_code |-> code, last_scheduled_run |-> -1]
NoATask == ATask(FALSE, "")

\* an active task with a routine, an inactive one, one without a routine
InitATasks ==
    (1 :> ATask(TRUE, "valid") @@ 2 :> ATask(FALSE, "valid") @@ 3 :> ATask(TRUE, ""))
MissingATaskId == 4

NoSched ==
    [pc |-> "idle", arg |-> 0, task |-> NoATask, execution |-> 0, out |-> "none",
     triggers |-> 0, started |-> 0]

SchedIdle ==
    /\ atasks = InitATasks
    /\ sexecs = <<>>
    /\ sched = NoSched

AppIdle ==
    /\ executions = NoExecution
    /\ view = NoView
    /\ deliv = [d \in Deliveries |-> NoDelivery]
    /\ SchedIdle

\* a worker process for every invocation: none waits for a free worker
EnoughWorkers == MaxInv + MaxGroupInv

ExtIdle ==
    /\ hq = NoHashQuery
    /\ pool = EnoughWorkers
    /\ test = NoTest
    /\ AppIdle

Init ==
    /\ InitCommon
    /\ ExtIdle
    /\ groups = [g \in GroupIds |-> GroupRow(TRUE, <<>>)]

(* --------------------------- run_in_container -------------------------- *)
\* What the environment does with one sandbox execution:
\*   kind "tmpfail": NamedTemporaryFile raises (line 137, outside the try)
\*   kind "runfail": docker_client.containers.run raises (line 143), before
\*                   or after the daemon created the container
\*   kind "run":     the container starts, runs for `seconds` and exits with
\*                   `exit`; its logs hold `noise`, then the message `msg`
\*                   the wrapper script printed last
NoMsg == [present |-> FALSE, success |-> FALSE, data |-> <<>>, error |-> ""]
\* line 129: {"success": False, "error": str(e)}
FailMsg(e) == [present |-> TRUE, success |-> FALSE, data |-> <<>>, error |-> e]
\* line 127: {"success": True, "data": result}
OkMsg(d) == [present |-> TRUE, success |-> TRUE, data |-> d, error |-> ""]

\* str(e) of the exception the routine raised; "" for one without arguments
ErrorTexts == {"", "routine error"}

\* exit codes of the container: the script ended, sys.exit(1) (line 130),
\* killed by the memory limit (line 150)
ExitOk == 0
ExitError == 1
ExitKilled == 137

\* the wrapper script (lines 111-134) prints success only when the routine
\* defined its entry point and returned
Messages(code, lists) ==
    {NoMsg} \cup {FailMsg(e) : e \in ErrorTexts}
    \cup (IF code = "ok" THEN {OkMsg(d) : d \in lists} ELSE {})

\* A piece of the container's logs, by what the pattern of line 167 and
\* json.loads can see of it: it has braces, it has the text "success" between
\* them, it is one JSON object (val) on its own
PlainText == [brace |-> FALSE, key |-> FALSE, json |-> FALSE, val |-> NoMsg]
BraceText == [brace |-> TRUE, key |-> FALSE, json |-> FALSE, val |-> NoMsg]
JsonObject(m) == [brace |-> TRUE, key |-> TRUE, json |-> TRUE, val |-> m]

\* what stands in the logs before the wrapper's message: the output of the
\* installers only, diagnostic text with braces, or diagnostic text the
\* routine printed that looks like a result object
NoNoise == <<PlainText>>
BraceNoise == <<PlainText, BraceText>>
ResultNoise == <<PlainText, JsonObject(OkMsg(<<D2>>))>>

\* line 161: container.logs(stdout=True, stderr=True)
Logs(b) == b.noise \o (IF b.msg.present THEN <<JsonObject(b.msg)>> ELSE <<>>)

NoJsonError == "No JSON output found"
ParseError == "Failed to parse output"

\* lines 164-174: re.findall(r'\{.*"success".*\}', logs, re.DOTALL) has one
\* match at most, from the first '{' that has "success" after it to the last
\* '}'; json.loads accepts it if it is a single object
ParseLogs(logs) ==
    LET keys == {k \in DOMAIN logs : logs[k].key}
        opens == {k \in DOMAIN logs : logs[k].brace /\ \E j \in keys : k <= j}
        closes == {k \in DOMAIN logs : logs[k].brace /\ \E j \in keys : j <= k}
    IN
    IF opens = {} \/ closes = {} THEN FailMsg(NoJsonError)
    ELSE LET first == CHOOSE k \in opens : \A j \in opens : k <= j
             last == CHOOSE k \in closes : \A j \in closes : j <= k
         IN
         IF first = last /\ logs[first].json THEN logs[first].val
         ELSE FailMsg(ParseError)

TmpFail ==
    [kind |-> "tmpfail", created |-> FALSE, seconds |-> 0, noise |-> NoNoise,
     msg |-> NoMsg, exit |-> ExitOk]
RunFail(created) ==
    [kind |-> "runfail", created |-> created, seconds |-> 0, noise |-> NoNoise,
     msg |-> NoMsg, exit |-> ExitOk]
Ran(seconds, noise, msg, exit) ==
    [kind |-> "run", created |-> TRUE, seconds |-> seconds, noise |-> noise,
     msg |-> msg, exit |-> exit]

\* the exit code that goes with the wrapper's message
ExitOf(m) == IF m.success THEN ExitOk ELSE ExitError

\* every way a sandbox execution can go, for routines emitting `lists` and
\* printing nothing else
BehavioursOver(code, lists) ==
    {TmpFail, RunFail(FALSE), RunFail(TRUE),
     Ran(WaitTimeout + 1, NoNoise, NoMsg, ExitKilled)}
    \cup {Ran(1, NoNoise, m, ExitOf(m)) : m \in Messages(code, lists)}

SandboxBehaviours(code) == BehavioursOver(code, DataLists)

\* ... for routines emitting one record, or a record and a malformed one,
\* whose errors have a text, on a daemon that fails before it creates
FaultyBehaviours(code) ==
    BehavioursOver(code, {<<D1>>, <<D2, DBad>>})
        \ {RunFail(TRUE), Ran(1, NoNoise, FailMsg(""), ExitError)}

\* a host that cannot write the wrapper script, or a routine that ends in
\* time: with the same record twice if it defines its entry point, with an
\* error if it does not
PlainBehaviours(code) ==
    {TmpFail}
    \cup (IF code = "ok"
          THEN {Ran(1, NoNoise, OkMsg(<<D1, D1>>), ExitOk)}
          ELSE {Ran(1, NoNoise, FailMsg("routine error"), ExitError)})

\* a healthy host and a routine that returns well-formed records in time
HealthyBehaviours(code) ==
    {Ran(1, NoNoise, OkMsg(d), ExitOk) : d \in CleanLists}

\* a routine that ends in time, with any other output before its message,
\* or that ends without a message, with any exit code
LogBehaviours(code) ==
    {Ran(1, n, m, ExitOf(m)) :
        n \in {NoNoise, BraceNoise, ResultNoise},
        m \in Messages(code, {<<D1>>}) \ {NoMsg, FailMsg("")}}
    \cup {Ran(1, n, NoMsg, x) :
        n \in {NoNoise, BraceNoise, ResultNoise},
        x \in {ExitOk, ExitError, ExitKilled}}

\* lines 137-193: the value run_in_container returns (raised: it raises
\* instead), and what became of the script file and of the container
run_in_container(b) ==
    IF b.kind = "tmpfail" THEN
        [raised |-> TRUE, success |-> FALSE, data |-> <<>>, error |-> "OSError",
         script |-> "none", started |-> FALSE, removed |-> FALSE, expired |-> FALSE]
    ELSE IF b.kind = "runfail" THEN
        \* except Exception (181); os.unlink (189); `container` is unbound,
        \* remove() raises NameError, swallowed by the bare except (192)
        [raised |-> FALSE, success |-> FALSE, data |-> <<>>, error |-> "DockerException",
         script |-> "deleted", started |-> FALSE, removed |-> FALSE, expired |-> FALSE]
    ELSE IF b.seconds > WaitTimeout THEN
        \* container.wait raises after the deadline: except Exception (181),
        \* then os.unlink (189) and container.remove(force=True) (191)
        [raised |-> FALSE, success |-> FALSE, data |-> <<>>, error |-> "ReadTimeout",
         script |-> "deleted", started |-> TRUE, removed |-> TRUE, expired |-> TRUE]
    ELSE
        \* lines 160-179, then os.unlink (189) and container.remove (191)
        LET output == ParseLogs(Logs(b)) IN
        [raised |-> FALSE, success |-> output.success, data |-> output.data,
         error |-> output.error,
         script |-> "deleted", started |-> TRUE, removed |-> TRUE, expired |-> FALSE]

(* ------------------------------ commands ------------------------------ *)
\* invocation slots are handed out in order
NextSlot == 1 + Cardinality({i \in Inv : pc[i] # "idle"})

taskVars == <<pc, arg, ltask, lrun, result, idx, existing, counts, err, outcome, sandbox, parent>>
groupVars == <<gpc, garg, lgroup, gtasks, gdisp, gresults, gout, events, mails>>
dbVars == <<tasks, groups, taskRuns, items, nextItemId, now>>
\* what the engine's actions never touch
schedVars == <<atasks, sexecs, sched>>
appVars == <<executions, view, deliv, schedVars>>
extVars == <<hq, pool, test, appVars>>

\* admin.py run_task_now / any caller: run_scraping_task.delay(task_id)
RunJob(t) ==
    /\ NextSlot \in Inv
    /\ NextSlot <= MaxDirect
    /\ pc' = [pc EXCEPT ![NextSlot] = "queued"]
    /\ arg' = [arg EXCEPT ![NextSlot] = t]
    /\ UNCHANGED <<ltask, lrun, result, idx, existing, counts, err, outcome, sandbox, parent>>
    /\ UNCHANGED <<dbVars, groupVars, extVars>>

(* ----------------------- run_scraping_task, lines 15-31 ---------------- *)
\* the invocation is over: its locals are dropped (err stays, as the record
\* of the exception it handled)
Finish(i, out) ==
    /\ pc' = [pc EXCEPT ![i] = "done"]
    /\ outcome' = [outcome EXCEPT ![i] = out]
    /\ ltask' = [ltask EXCEPT ![i] = InitTasks[1]]
    /\ lrun' = [lrun EXCEPT ![i] = NoRun]
    /\ result' = [result EXCEPT ![i] = NoResult]
    /\ idx' = [idx EXCEPT ![i] = 0]
    /\ existing' = [existing EXCEPT ![i] = NoItem]
    /\ counts' = [counts EXCEPT ![i] = NoCounts]

\* an exception leaves run_scraping_task (except ...: raise, lines 29-31)
Raised(e) == [NoOutcome EXCEPT !.kind = "raised", !.error = e]

\* tasks.py line 20 (TaskExecutor(): docker.from_env(), executors.py 15-16),
\* then execute_task lines 20-26: the task is read and its TaskRun created
Begin(i) ==
    /\ pc[i] = "queued"
    /\ \E docker_ok \in BOOLEAN :
        IF ~docker_ok THEN
            /\ Finish(i, Raised("DockerException"))
            /\ UNCHANGED <<taskRuns, err>>
        ELSE IF arg[i] \notin DOMAIN tasks THEN
            /\ Finish(i, Raised("DoesNotExist"))
            /\ UNCHANGED <<taskRuns, err>>
        ELSE
            /\ lrun' = [lrun EXCEPT ![i] =
                   [NoRun EXCEPT !.exists = TRUE, !.task = arg[i],
                                 !.status = "RUNNING", !.started_at = now]]
            /\ taskRuns' = [taskRuns EXCEPT ![i] = lrun'[i]]
            /\ ltask' = [ltask EXCEPT ![i] = tasks[arg[i]]]
            /\ pc' = [pc EXCEPT ![i] = "container"]
            /\ UNCHANGED <<result, idx, existing, counts, err, outcome>>
    /\ UNCHANGED <<arg, sandbox, parent, tasks, groups, items, nextItemId, now, groupVars, extVars>>

(* -------------------- execute_task, lines 28-106 ----------------------- *)
\* an exception inside the try block: control goes to the handler (line 95)
Throw(i, e) ==
    /\ pc' = [pc EXCEPT ![i] = "handler"]
    /\ err' = [err EXCEPT ![i] = e]

\* lines 30-40: the sandbox behaves as b and runs for d ticks of the clock
Container(i, b, d) ==
    /\ pc[i] = "container"
    /\  LET out == run_in_container(b) IN
        /\ now' = now + d
        /\ sandbox' = [sandbox EXCEPT ![i] =
               [script |-> out.script, created |-> b.created, started |-> out.started,
                removed |-> out.removed, expired |-> out.expired,
                exit |-> IF out.started /\ ~out.expired THEN b.exit ELSE -1,
                haslogs |-> out.started /\ ~out.expired,
                msg |-> IF out.started /\ ~out.expired THEN b.msg ELSE NoMsg]]
        /\ IF out.raised THEN
               /\ Throw(i, out.error)
               /\ UNCHANGED result
           ELSE
               /\ result' = [result EXCEPT ![i] =
                      [success |-> out.success, data |-> out.data, error |-> out.error,
                       haserror |-> ~out.success]]
               /\ pc' = [pc EXCEPT ![i] =
                      IF out.success /\ out.data # <<>> THEN "read" ELSE "final"]
               /\ UNCHANGED err
        /\ idx' = [idx EXCEPT ![i] = 1]
    /\ UNCHANGED <<arg, ltask, lrun, existing, counts, outcome, parent>>
    /\ UNCHANGED <<tasks, groups, taskRuns, items, nextItemId, groupVars, extVars>>

\* the field choice without the schema: always the default fields
hash_fields_default(task) == DefaultHashFields

\* line 43
hash_fields(task) ==
    IF task.extraction_schema = {} THEN DefaultHashFields ELSE task.extraction_schema

\* lines 47-50: filter(task=, unique_hash=).first() (lowest primary key)
FirstItem(t, h) ==
    LET found == {r \in items : r.task = t /\ r.unique_hash = h} IN
    IF found = {} THEN NoItem
    ELSE CHOOSE r \in found : \A q \in found : r.id <= q.id

\* lines 41-50: hash the next item and look it up
ReadItem(i) ==
    /\ pc[i] = "read"
    /\ LET item_data == result[i].data[idx[i]] IN
       IF ~item_data.isdict THEN
           \* generate_hash: data[field] on a non-object raises TypeError
           /\ Throw(i, "TypeError")
           /\ UNCHANGED existing
       ELSE
           /\ existing' = [existing EXCEPT ![i] =
                  FirstItem(arg[i], generate_hash(item_data, hash_fields(ltask[i])))]
           /\ pc' = [pc EXCEPT ![i] = "write"]
           /\ UNCHANGED err
    /\ UNCHANGED <<arg, ltask, lrun, result, idx, counts, outcome, sandbox, parent>>
    /\ UNCHANGED <<dbVars, groupVars, extVars>>

\* the table without its constraint
UniqueTogetherDropped(rows, row) == TRUE

\* models.py line 100: unique_together = ['unique_hash', 'task']
UniqueTogether(rows, row) ==
    \A r \in rows : ~(r.task = row.task /\ r.unique_hash = row.unique_hash)

\* a touch that stamps the row as if it were new
TouchedRowRestamped(row, t) ==
    [row EXCEPT !.first_seen = t, !.last_seen = t, !.times_seen = row.times_seen + 1]

\* lines 54-56: Model.save() of the in-memory row writes every column
TouchedRow(row, t) ==
    [row EXCEPT !.last_seen = t, !.times_seen = row.times_seen + 1]

\* lines 59-66
NewRow(i, id, item_data, h, t) ==
    [id |-> id, task |-> arg[i], run |-> i, unique_hash |-> h, data |-> item_data,
     source_urls |-> <<ltask[i].target_url>>, first_seen |-> t, last_seen |-> t,
     times_seen |-> DefaultTimesSeen]

\* lines 52-69: update the row that was read, or insert a new one
WriteItem(i) ==
    /\ pc[i] = "write"
    /\ LET item_data == result[i].data[idx[i]]
           h == generate_hash(item_data, hash_fields(ltask[i]))
           row == NewRow(i, nextItemId, item_data, h, now)
           more == idx[i] < Len(result[i].data)
       IN
       IF existing[i].id # 0 THEN
           /\ items' = {r \in items : r.id # existing[i].id}
                         \cup {TouchedRow(existing[i], now)}
           /\ counts' = [counts EXCEPT ![i].items_processed = @ + 1]
           /\ idx' = [idx EXCEPT ![i] = @ + 1]
           /\ pc' = [pc EXCEPT ![i] = IF more THEN "read" ELSE "final"]
           /\ UNCHANGED <<nextItemId, err>>
       ELSE IF UniqueTogether(items, row) THEN
           /\ items' = items \cup {row}
           /\ nextItemId' = nextItemId + 1
           /\ counts' = [counts EXCEPT ![i].items_processed = @ + 1,
                                       ![i].new_items = @ + 1]
           /\ idx' = [idx EXCEPT ![i] = @ + 1]
           /\ pc' = [pc EXCEPT ![i] = IF more THEN "read" ELSE "final"]
           /\ UNCHANGED err
       ELSE
           \* the INSERT violates the constraint: IntegrityError
           /\ Throw(i, "IntegrityError")
           /\ UNCHANGED <<items, nextItemId, counts, idx>>
    /\ existing' = [existing EXCEPT ![i] = NoItem]
    /\ UNCHANGED <<arg, ltask, lrun, result, outcome, sandbox, parent>>
    /\ UNCHANGED <<tasks, groups, taskRuns, now, groupVars, extVars>>

\* line 72
FinalStatus(res) == IF res.success THEN "SUCCESS" ELSE "FAILED"

\* lines 72-76: the fields set on the in-memory TaskRun
FinalRun(i) ==
    [lrun[i] EXCEPT !.status = FinalStatus(result[i]),
                    !.completed_at = now,
                    !.items_found = counts[i].items_processed,
                    !.error_message = result[i].error]

\* lines 71-77
FinalUpdate(i) ==
    /\ pc[i] = "final"
    /\ lrun' = [lrun EXCEPT ![i] = FinalRun(i)]
    /\ taskRuns' = [taskRuns EXCEPT ![i] = lrun'[i]]
    /\ pc' = [pc EXCEPT ![i] = "savetask"]
    /\ UNCHANGED <<arg, ltask, result, idx, existing, counts, err, outcome, sandbox, parent>>
    /\ UNCHANGED <<tasks, groups, items, nextItemId, now, groupVars, extVars>>

\* lines 80-84: the rolling average, in units of 1 / AvgScale
NewAverage(task, execution_time) ==
    IF ~task.avg_null /\ task.avg # 0
    THEN (task.avg + execution_time * AvgScale) \div 2
    ELSE execution_time * AvgScale

\* lines 79-93: task.save() writes the in-memory task; the result is returned
SaveTask(i) ==
    /\ pc[i] = "savetask"
    /\ LET execution_time == lrun[i].completed_at - lrun[i].started_at IN
       /\ tasks' = [tasks EXCEPT ![arg[i]] =
              [ltask[i] EXCEPT !.avg_null = FALSE,
                               !.avg = NewAverage(ltask[i], execution_time)]]
       /\ Finish(i, [kind |-> "returned", success |-> result[i].success,
                     items_found |-> counts[i].items_processed,
                     new_items |-> counts[i].new_items, error |-> ""])
    /\ UNCHANGED <<arg, err, sandbox, parent>>
    /\ UNCHANGED <<groups, taskRuns, items, nextItemId, now, groupVars, extVars>>

\* the handler without its body: the exception is passed on
HandlerReraises(i) ==
    /\ pc[i] = "handler"
    /\ Finish(i, Raised(err[i]))
    /\ UNCHANGED <<arg, err, sandbox, parent>>
    /\ UNCHANGED <<dbVars, groupVars, extVars>>

\* a handler that also undoes what the run stored
HandlerRollsBack(i) ==
    /\ pc[i] = "handler"
    /\ taskRuns' = [taskRuns EXCEPT ![i] =
           [lrun[i] EXCEPT !.status = "FAILED", !.completed_at = now,
                           !.error_message = err[i]]]
    /\ items' = {r \in items : r.run # i}
    /\ Finish(i, [NoOutcome EXCEPT !.kind = "returned", !.error = err[i]])
    /\ UNCHANGED <<arg, err, sandbox, parent>>
    /\ UNCHANGED <<tasks, groups, nextItemId, now, groupVars, extVars>>

\* lines 95-106: task_run.save() writes every column of the in-memory run
Handler(i) ==
    /\ pc[i] = "handler"
    /\ taskRuns' = [taskRuns EXCEPT ![i] =
           [lrun[i] EXCEPT !.status = "FAILED", !.completed_at = now,
                           !.error_message = err[i]]]
    /\ Finish(i, [NoOutcome EXCEPT !.kind = "returned", !.error = err[i]])
    /\ UNCHANGED <<arg, err, sandbox, parent>>
    /\ UNCHANGED <<tasks, groups, items, nextItemId, now, groupVars, extVars>>

(* ---------------------- run_scraping_group, lines 35-76 ----------------- *)
\* a caller queues run_scraping_group(group_id)
RunGroup(g, gid) ==
    /\ gpc[g] = "idle"
    /\ gpc' = [gpc EXCEPT ![g] = "queued"]
    /\ garg' = [garg EXCEPT ![g] = gid]
    /\ UNCHANGED <<lgroup, gtasks, gdisp, gresults, gout, events, mails>>
    /\ UNCHANGED <<dbVars, taskVars, extVars>>

\* line 41: order_by('execution_order'); rows of equal order come in any order
OrderBy(S) ==
    {s \in [1..Cardinality(S) -> S] :
        /\ \A a, b \in DOMAIN s : a # b => s[a] # s[b]
        /\ \A a, b \in DOMAIN s :
               a < b => tasks[s[a]].execution_order <= tasks[s[b]].execution_order}

\* the selection without its filter: every job of the group
AllTasks(gid) == {t \in DOMAIN tasks : tasks[t].group = gid}

\* line 41: group.tasks.filter(is_active=True)
ActiveTasks(gid) == {t \in DOMAIN tasks : tasks[t].group = gid /\ tasks[t].is_active}

\* run_scraping_task.delay(t) / a signature applied: the next n invocation
\* slots are queued for the tasks ts[from .. from + n - 1]
Dispatch(g, ts, from, n) ==
    /\ NextSlot + n - 1 \in 0..MaxInv
    /\ pc' = [i \in Inv |->
                IF i \in NextSlot..(NextSlot + n - 1) THEN "queued" ELSE pc[i]]
    /\ arg' = [i \in Inv |->
                IF i \in NextSlot..(NextSlot + n - 1) THEN ts[from + i - NextSlot] ELSE arg[i]]
    /\ parent' = [i \in Inv |->
                IF i \in NextSlot..(NextSlot + n - 1) THEN g ELSE parent[i]]
    /\ gdisp' = [gdisp EXCEPT ![g] =
                @ \o [k \in 1..n |-> NextSlot + k - 1]]

\* an exception leaves run_scraping_group (except ...: raise, lines 74-76)
GroupRaise(g) ==
    /\ gpc' = [gpc EXCEPT ![g] = "done"]
    /\ gout' = [gout EXCEPT ![g] = [NoGroupOut EXCEPT !.kind = "raised"]]

\* lines 40-61, up to the first wait: the group is read, the queryset is
\* evaluated, and all jobs (parallel) or the first job (sequential) are queued
GroupBegin(g) ==
    /\ gpc[g] = "queued"
    /\ IF garg[g] \notin DOMAIN groups THEN
           /\ GroupRaise(g)
           /\ UNCHANGED <<lgroup, gtasks, gdisp, pc, arg, parent>>
       ELSE \E ts \in OrderBy(ActiveTasks(garg[g])) :
           /\ lgroup' = [lgroup EXCEPT ![g] = groups[garg[g]]]
           /\ gtasks' = [gtasks EXCEPT ![g] = ts]
           /\ IF groups[garg[g]].run_parallel THEN
                  /\ Dispatch(g, ts, 1, Len(ts))
                  /\ gpc' = [gpc EXCEPT ![g] = "join"]
              ELSE IF Len(ts) = 0 THEN
                  /\ gpc' = [gpc EXCEPT ![g] = "notify"]
                  /\ UNCHANGED <<gdisp, pc, arg, parent>>
              ELSE
                  /\ Dispatch(g, ts, 1, 1)
                  /\ gpc' = [gpc EXCEPT ![g] = "seqwait"]
           /\ UNCHANGED gout
    /\ UNCHANGED <<garg, gresults, events, mails>>
    /\ UNCHANGED <<ltask, lrun, result, idx, existing, counts, err, outcome, sandbox>>
    /\ UNCHANGED <<dbVars, extVars>>

\* the sequential loop without its .get(): the next job is queued at once
SeqStepNoWait(g) ==
    /\ gpc[g] = "seqwait"
    /\ Len(gdisp[g]) < Len(gtasks[g])
    /\ Dispatch(g, gtasks[g], Len(gdisp[g]) + 1, 1)
    /\ UNCHANGED <<gpc, garg, lgroup, gtasks, gresults, gout, events, mails>>
    /\ UNCHANGED <<ltask, lrun, result, idx, existing, counts, err, outcome, sandbox>>
    /\ UNCHANGED <<dbVars, extVars>>

\* lines 59-61: .get() returns the job's result (or raises its exception),
\* the result is appended and the next job, if any, is queued
SeqStep(g) ==
    /\ gpc[g] = "seqwait"
    /\ LET cur == gdisp[g][Len(gdisp[g])] IN
       /\ pc[cur] = "done"
       /\ IF outcome[cur].kind = "raised" THEN
              /\ GroupRaise(g)
              /\ UNCHANGED <<gresults, gdisp, pc, arg, parent>>
          ELSE
              /\ gresults' = [gresults EXCEPT ![g] = Append(@, outcome[cur])]
              /\ IF Len(gdisp[g]) < Len(gtasks[g]) THEN
                     /\ Dispatch(g, gtasks[g], Len(gdisp[g]) + 1, 1)
                     /\ UNCHANGED gpc
                 ELSE
                     /\ gpc' = [gpc EXCEPT ![g] = "notify"]
                     /\ UNCHANGED <<gdisp, pc, arg, parent>>
              /\ UNCHANGED gout
    /\ UNCHANGED <<garg, lgroup, gtasks, events, mails>>
    /\ UNCHANGED <<ltask, lrun, result, idx, existing, counts, err, outcome, sandbox>>
    /\ UNCHANGED <<dbVars, extVars>>

\* a join that stops waiting at the first job that has returned
ParJoinFirstDone(g) ==
    /\ gpc[g] = "join"
    /\ LET ended == SelectSeq(gdisp[g],
                       LAMBDA i : pc[i] = "done" /\ outcome[i].kind = "returned") IN
       /\ Len(ended) > 0
       /\ gresults' = [gresults EXCEPT ![g] = [k \in DOMAIN ended |-> outcome[ended[k]]]]
       /\ gpc' = [gpc EXCEPT ![g] = "notify"]
    /\ UNCHANGED <<garg, lgroup, gtasks, gdisp, gout, events, mails>>
    /\ UNCHANGED <<dbVars, taskVars, extVars>>

\* lines 55-56: results.get() returns every job's result, in the order of
\* the signatures, once all have returned; it raises the exception of a job
\* that raised
ParJoin(g) ==
    /\ gpc[g] = "join"
    /\ LET disp == {gdisp[g][k] : k \in DOMAIN gdisp[g]} IN
       \/ /\ \E i \in disp : pc[i] = "done" /\ outcome[i].kind = "raised"
          /\ GroupRaise(g)
          /\ UNCHANGED gresults
       \/ /\ \A i \in disp : pc[i] = "done" /\ outcome[i].kind = "returned"
          /\ gresults' = [gresults EXCEPT ![g] =
                 [k \in DOMAIN gdisp[g] |-> outcome[gdisp[g][k]]]]
          /\ gpc' = [gpc EXCEPT ![g] = "notify"]
          /\ UNCHANGED gout
    /\ UNCHANGED <<garg, lgroup, gtasks, gdisp, events, mails>>
    /\ UNCHANGED <<dbVars, taskVars, extVars>>

\* the notification without its test of the address list
GroupNotifyAlways(g) ==
    /\ gpc[g] = "notify"
    /\ events' = Append(events, [group_id |-> garg[g], task_results |-> gresults[g]])
    /\ gout' = [gout EXCEPT ![g] =
           [kind |-> "returned", tasks_run |-> Len(gresults[g]), results |-> gresults[g]]]
    /\ gpc' = [gpc EXCEPT ![g] = "done"]
    /\ UNCHANGED <<garg, lgroup, gtasks, gdisp, gresults, mails>>
    /\ UNCHANGED <<dbVars, taskVars, extVars>>

\* lines 63-72: the completion email is queued if the group has addresses,
\* and the group result is returned; .delay() raises when the broker cannot
\* be reached, inside the try block (the exception leaves by lines 74-76)
GroupNotify(g) ==
    /\ gpc[g] = "notify"
    /\ \E broker_ok \in BOOLEAN :
        IF lgroup[g].notification_emails # <<>> /\ ~broker_ok THEN
            /\ GroupRaise(g)
            /\ UNCHANGED events
        ELSE
            /\ events' = IF lgroup[g].notification_emails # <<>>
                         THEN Append(events, [group_id |-> garg[g],
                                              task_results |-> gresults[g]])
                         ELSE events
            /\ gout' = [gout EXCEPT ![g] =
                   [kind |-> "returned", tasks_run |-> Len(gresults[g]),
                    results |-> gresults[g]]]
            /\ gpc' = [gpc EXCEPT ![g] = "done"]
    /\ UNCHANGED <<garg, lgroup, gtasks, gdisp, gresults, mails>>
    /\ UNCHANGED <<dbVars, taskVars, extVars>>

(* ------------------ send_group_completion_email, lines 80-117 ----------- *)
\* sum(...) over a list of numbers
RECURSIVE sum(_)
sum(ns) == IF ns = <<>> THEN 0 ELSE Head(ns) + sum(Tail(ns))

\* the failed-task count without its `not`
failed_tasks_of_successes(task_results) ==
    sum([k \in DOMAIN task_results |-> IF task_results[k].success THEN 1 ELSE 0])

\* line 88
failed_tasks(task_results) ==
    sum([k \in DOMAIN task_results |-> IF ~task_results[k].success THEN 1 ELSE 0])

\* lines 86-101: the figures of the message; r.get(key, 0) is 0 for the
\* result of the except block, which has neither items_found nor new_items
Summary(task_results) ==
    [total_tasks |-> Len(task_results),
     successful_tasks |-> Len(task_results) - failed_tasks(task_results),
     failed_tasks |-> failed_tasks(task_results),
     total_items |-> sum([k \in DOMAIN task_results |->
         IF task_results[k].success THEN task_results[k].items_found ELSE 0]),
     new_items |-> sum([k \in DOMAIN task_results |->
         IF task_results[k].success THEN task_results[k].new_items ELSE 0])]

\* lines 82-117: a worker handles the oldest queued call; send_mail either
\* delivers or raises, and the exception is logged and dropped
SendEmail ==
    /\ Len(mails) < Len(events)
    /\ LET call == events[Len(mails) + 1] IN
       \E delivered \in BOOLEAN :
           mails' = Append(mails,
               [group_id |-> call.group_id,
                recipients |-> groups[call.group_id].notification_emails,
                summary |-> Summary(call.task_results),
                delivered |-> delivered])
    /\ UNCHANGED <<gpc, garg, lgroup, gtasks, gdisp, gresults, gout, events>>
    /\ UNCHANGED <<dbVars, taskVars, extVars>>

\* The database refuses a statement of the try block (lines 47-85) with an
\* OperationalError. What lines 72-76 assigned before a failing
\* task_run.save() stays on the in-memory run.
StoreError(i) ==
    /\ pc[i] \in {"read", "write", "final", "savetask"}
    /\ Throw(i, "OperationalError")
    /\ lrun' = [lrun EXCEPT ![i] = IF pc[i] = "final" THEN FinalRun(i) ELSE @]
    /\ existing' = [existing EXCEPT ![i] = NoItem]
    /\ UNCHANGED <<arg, ltask, result, idx, counts, outcome, sandbox, parent>>
    /\ UNCHANGED <<dbVars, groupVars, extVars>>

(* --------------------------- specifications --------------------------- *)
\* RunJob commands for any task id, sandboxes behaving in every way (their
\* logs hold the wrapper's message and the installers' output only)
Next ==
    \/ \E t \in {1, 3, MissingTaskId} : RunJob(t)
    \/ \E i \in Inv : Begin(i)
    \/ \E i \in Inv : \E b \in SandboxBehaviours(ltask[i].generated_code), d \in {0, 1} :
            Container(i, b, d)
    \/ \E i \in Inv : ReadItem(i)
    \/ \E i \in Inv : WriteItem(i)
    \/ \E i \in Inv : FinalUpdate(i)
    \/ \E i \in Inv : SaveTask(i)
    \/ \E i \in Inv : Handler(i)

Spec == Init /\ [][Next]_vars

\* overlapping runs of jobs 1 and 5 (same hash fields) on healthy sandboxes
\* that finish within one tick of the clock
NextDedup ==
    \/ \E t \in {1, 5} : RunJob(t)
    \/ \E i \in Inv : Begin(i)
    \/ \E i \in Inv : \E b \in HealthyBehaviours(ltask[i].generated_code) : Container(i, b, 0)
    \/ \E i \in Inv : ReadItem(i)
    \/ \E i \in Inv : WriteItem(i)
    \/ \E i \in Inv : FinalUpdate(i)
    \/ \E i \in Inv : SaveTask(i)
    \/ \E i \in Inv : Handler(i)

SpecDedup == Init /\ [][NextDedup]_vars

\* runs of job 1 and of a missing job, sandboxes behaving in every way, and a
\* database that may refuse any statement of the try block
NextF ==
    \/ \E t \in {1, MissingTaskId} : RunJob(t)
    \/ \E i \in Inv : Begin(i)
    \/ \E i \in Inv : \E b \in FaultyBehaviours(ltask[i].generated_code) : Container(i, b, 0)
    \/ \E i \in Inv : ReadItem(i)
    \/ \E i \in Inv : WriteItem(i)
    \/ \E i \in Inv : FinalUpdate(i)
    \/ \E i \in Inv : SaveTask(i)
    \/ \E i \in Inv : Handler(i)
    \/ \E i \in Inv : StoreError(i)

SpecF == Init /\ [][NextF]_vars

\* the database as the RunGroup command finds it: group 1 in either mode,
\* with or without notification addresses
InitGroup ==
    /\ InitCommon
    /\ ExtIdle
    /\ \E par \in BOOLEAN, emails \in {<<>>, <<"ops">>} :
          groups = (1 :> GroupRow(par, emails) @@ 2 :> GroupRow(TRUE, <<>>))

\* RunGroup commands; each job's sandbox ends in time or cannot be set up
NextGroup ==
    \/ \E g \in GInv, gid \in {1, 2, MissingGroupId} : RunGroup(g, gid)
    \/ \E g \in GInv : GroupBegin(g)
    \/ \E g \in GInv : SeqStep(g)
    \/ \E g \in GInv : ParJoin(g)
    \/ \E g \in GInv : GroupNotify(g)
    \/ SendEmail
    \/ \E i \in Inv : Begin(i)
    \/ \E i \in Inv : \E b \in PlainBehaviours(ltask[i].generated_code) : Container(i, b, 0)
    \/ \E i \in Inv : ReadItem(i)
    \/ \E i \in Inv : WriteItem(i)
    \/ \E i \in Inv : FinalUpdate(i)
    \/ \E i \in Inv : SaveTask(i)
    \/ \E i \in Inv : Handler(i)

SpecGroup == InitGroup /\ [][NextGroup]_vars

\* runs of jobs 1 and 3 whose containers end in time, with any other output
\* in their logs and any exit code
NextLogs ==
    \/ \E t \in {1, 3} : RunJob(t)
    \/ \E i \in Inv : Begin(i)
    \/ \E i \in Inv : \E b \in LogBehaviours(ltask[i].generated_code) : Container(i, b, 0)
    \/ \E i \in Inv : ReadItem(i)
    \/ \E i \in Inv : WriteItem(i)
    \/ \E i \in Inv : FinalUpdate(i)
    \/ \E i \in Inv : SaveTask(i)
    \/ \E i \in Inv : Handler(i)

SpecLogs == Init /\ [][NextLogs]_vars

(* ------------------------------- claims -------------------------------- *)
\* the fingerprint the invocation is reconciling
CurrentHash(i) == generate_hash(result[i].data[idx[i]], hash_fields(ltask[i]))
\* the stored Records of that (job, fingerprint) pair
Stored(t, h) == {r \in items : r.task = t /\ r.unique_hash = h}

\* C1: in every reachable state at most one Record (ScrapedItem) exists for
\* each (Job, fingerprint) pair, whatever the interleaving of job runs.
C1_UniquePerJobAndFingerprint ==
    \A r \in items : \A q \in items :
        (r.task = q.task /\ r.unique_hash = q.unique_hash) => r.id = q.id

\* two overlapping runs reconciled the same pair: one stored the Record, the
\* other one's insert was refused
C1_Witness ==
    /\ items # {}
    /\ \E i \in Inv : taskRuns[i].error_message = "IntegrityError"

\* C2: when two concurrent reconciliations of one (job, fingerprint) pair
\* both find no Record, the insert that hits the uniqueness conflict is
\* retried as an update: no reconciliation ends in an error and no run is
\* marked FAILED because of the conflict.
C2_ConflictRetriedAsUpdate ==
    \A i \in Inv :
        /\ err[i] # "IntegrityError"
        /\ ~(taskRuns[i].status = "FAILED"
             /\ taskRuns[i].error_message = "IntegrityError")

\* C3: every reconciliation either touches the existing Record of its
\* (job, fingerprint) pair (times_seen + 1, last_seen updated, no Record
\* added) or, when there is none, creates exactly one Record with
\* times_seen = 1.
C3_InsertOrTouch ==
    [][\A i \in Inv :
          (pc[i] = "write" /\ pc'[i] # "write") =>
              LET cur == Stored(arg[i], CurrentHash(i)) IN
              IF cur # {}
              THEN /\ Cardinality(items') = Cardinality(items)
                   /\ \A r \in cur : \E q \in items' :
                          /\ q.id = r.id
                          /\ q.times_seen = r.times_seen + 1
                          /\ q.last_seen = now
              ELSE \E q \in items' :
                          /\ items' = items \cup {q}
                          /\ q \notin items
                          /\ q.times_seen = 1]_vars

\* C4: the stored times_seen of a Record never becomes smaller in a step.
C4_TimesSeenMonotone ==
    [][\A r \in items : \A q \in items' :
          q.id = r.id => q.times_seen >= r.times_seen]_vars

\* C5: a Run's status moves only along PENDING -> RUNNING -> {SUCCESS,
\* FAILED, TIMEOUT}: no step changes a terminal status and no Run becomes
\* terminal without having been RUNNING.
C5_RunStatusTransitions ==
    [][\A i \in Inv :
          LET old == taskRuns[i]
              new == taskRuns'[i] IN
          /\ ~old.exists /\ new.exists => new.status \in {"PENDING", "RUNNING"}
          /\ old.exists /\ new.status # old.status =>
                 \/ old.status = "PENDING" /\ new.status = "RUNNING"
                 \/ old.status = "RUNNING" /\ new.status \in Terminal]_vars

\* C6: a sandbox that runs past its deadline is torn down and its Run ends
\* TIMEOUT, never FAILED.
C6_DeadlineEndsInTimeout ==
    \A i \in Inv :
        (sandbox[i].expired /\ taskRuns[i].status \in Terminal) =>
            /\ sandbox[i].removed
            /\ taskRuns[i].status = "TIMEOUT"

C8_NoExceptionEscapes ==
    /\ \A i \in Inv : outcome[i].kind # "raised"
    /\ \A g \in GInv : gout[g].kind # "raised"

\* C9: a routine that fails structural validation (empty, or without the
\* entry point) never gets a sandbox started for its Run.
C9_InvalidRoutineStartsNoSandbox ==
    \A i \in Inv :
        (taskRuns[i].exists /\ tasks[taskRuns[i].task].generated_code # "ok") =>
            ~sandbox[i].started

\* C10: in sequential mode the jobs are queued in ascending execution_order,
\* one at a time, and a job is queued only after the Run of every job queued
\* before it has reached a terminal status.
C10_SequentialOrder ==
    \A g \in GInv :
        (gpc[g] \notin {"idle", "queued"} /\ ~lgroup[g].run_parallel) =>
            \A k, l \in DOMAIN gdisp[g] :
                k < l =>
                    /\ tasks[arg[gdisp[g][k]]].execution_order
                           <= tasks[arg[gdisp[g][l]]].execution_order
                    /\ pc[gdisp[g][k]] = "done"
                    /\ taskRuns[gdisp[g][k]].exists
                    /\ taskRuns[gdisp[g][k]].status \in Terminal

\* a sequential group has queued its third job after its second job failed
C10_Witness ==
    \E g \in GInv :
        /\ ~lgroup[g].run_parallel
        /\ Len(gdisp[g]) = 3
        /\ taskRuns[gdisp[g][2]].status = "FAILED"
        /\ pc[gdisp[g][3]] = "container"

\* the jobs a group invocation selected were all queued, each once, in order
QueuedAll(g) ==
    /\ Len(gdisp[g]) = Len(gtasks[g])
    /\ \A k \in DOMAIN gdisp[g] : arg[gdisp[g][k]] = gtasks[g][k]

\* C11: in sequential mode a failing job does not abort the sequence: when a
\* sequential group invocation is over, every selected job has been executed
\* exactly once, whether an earlier job returned a failure result or its
\* queued task raised.
C11_SequentialRunsEveryJob ==
    \A g \in GInv :
        (gpc[g] = "done" /\ garg[g] \in DOMAIN groups /\ ~lgroup[g].run_parallel) =>
            /\ QueuedAll(g)
            /\ \A k \in DOMAIN gdisp[g] : pc[gdisp[g][k]] = "done"

\* C12: in parallel mode all selected jobs are queued together, before any
\* wait; the group result and the completion event exist only once every
\* queued job has completed, and the result holds one per-job result for
\* each selected job, in the order of selection, whatever the order in which
\* the jobs completed.
C12_ParallelFanOutFanIn ==
    \A g \in GInv :
        (gpc[g] \in {"join", "notify", "done"} /\ garg[g] \in DOMAIN groups
             /\ lgroup[g].run_parallel) =>
            /\ QueuedAll(g)
            /\ (gpc[g] = "notify" \/ gout[g].kind = "returned") =>
                   /\ \A k \in DOMAIN gdisp[g] : pc[gdisp[g][k]] = "done"
                   /\ Len(gresults[g]) = Len(gtasks[g])
                   /\ \A k \in DOMAIN gresults[g] : gresults[g][k] = outcome[gdisp[g][k]]
            /\ gout[g].kind = "returned" => gout[g].results = gresults[g]
            /\ \A e \in DOMAIN events :
                   events[e].group_id = garg[g] =>
                       /\ gpc[g] = "done"
                       /\ events[e].task_results = gresults[g]

\* a parallel group returned three results although its last-selected job
\* stored its Record before its first-selected job did
C12_Witness ==
    \E g \in GInv :
        /\ lgroup[g].run_parallel
        /\ gout[g].kind = "returned"
        /\ Len(gout[g].results) = 3
        /\ \E r \in items, q \in items :
               /\ r.run = gdisp[g][3]
               /\ q.run = gdisp[g][1]
               /\ r.id < q.id

\* the runs a group invocation queued, and those of them that ended SUCCESS
GroupRuns(g) == {gdisp[g][k] : k \in DOMAIN gdisp[g]}
Succeeded(g) == {i \in GroupRuns(g) : taskRuns[i].status = "SUCCESS"}

\* the sum of items_found over a set of Runs
RECURSIVE ItemsFound(_)
ItemsFound(runs) ==
    IF runs = {} THEN 0
    ELSE LET i == CHOOSE j \in runs : TRUE IN
         taskRuns[i].items_found + ItemsFound(runs \ {i})

\* C13: the figures of a group's completion message agree with the Run
\* table: total items and new items are the sums over exactly the runs that
\* ended SUCCESS (items found by those runs, Records created by those runs),
\* the failed count is the number of runs that did not succeed, successes
\* plus failures equal tasks_run, and failed runs add nothing to the totals.
C13_TotalsOverSucceededJobs ==
    \A m \in DOMAIN mails :
        \E g \in GInv :
            /\ garg[g] = events[m].group_id
            /\ gout[g].kind = "returned"
            /\ gout[g].results = events[m].task_results
            /\ LET fig == mails[m].summary IN
               /\ fig.total_items = ItemsFound(Succeeded(g))
               /\ fig.new_items = Cardinality({r \in items : r.run \in Succeeded(g)})
               /\ fig.failed_tasks = Cardinality(GroupRuns(g) \ Succeeded(g))
               /\ fig.successful_tasks = Cardinality(Succeeded(g))
               /\ fig.successful_tasks + fig.failed_tasks = gout[g].tasks_run

\* a message about three jobs: one failed, the two
\* others succeeded and found more items than they stored
C13_Witness ==
    \E m \in DOMAIN mails :
        /\ mails[m].summary.failed_tasks = 1
        /\ mails[m].summary.successful_tasks = 2
        /\ mails[m].summary.total_items > mails[m].summary.new_items
        /\ mails[m].summary.new_items > 0

\* C14: every group invocation that returns has queued exactly one
\* completion event if its group has a notification address, and none if
\* it has no address; an event carries the per-job results of an invocation
\* all of whose jobs are over.
C14_OneEventPerCompletedGroup ==
    /\ \A gid \in GroupIds :
          Cardinality({e \in DOMAIN events : events[e].group_id = gid})
              = Cardinality({g \in GInv : /\ garg[g] = gid
                                          /\ gout[g].kind = "returned"
                                          /\ lgroup[g].notification_emails # <<>>})
    /\ \A e \in DOMAIN events :
          \E g \in GInv :
              /\ garg[g] = events[e].group_id
              /\ gout[g].kind = "returned"
              /\ events[e].task_results = gout[g].results
              /\ Len(events[e].task_results) = Len(gtasks[g])
              /\ \A i \in GroupRuns(g) : pc[i] = "done"

\* a sequential group with an address returned and its one event, with the
\* results of its three jobs, is queued
C14_Witness ==
    \E g \in GInv :
        /\ ~lgroup[g].run_parallel
        /\ lgroup[g].notification_emails # <<>>
        /\ gout[g].kind = "returned"
        /\ Len(events) = 1
        /\ Len(events[1].task_results) = 3
        /\ mails = <<>>

\* C15: a failure to queue or to deliver the completion event changes
\* nothing of the group's result: an invocation that has collected all
\* per-job results returns them with tasks_run, and handling the event
\* alters neither a group result nor a Run.
C15_NotificationFailureIsHarmless ==
    [][/\ \A g \in GInv :
             (gpc[g] = "notify" /\ gpc'[g] = "done") =>
                 /\ gout'[g].kind = "returned"
                 /\ gout'[g].tasks_run = Len(gresults[g])
                 /\ gout'[g].results = gresults[g]
                 /\ taskRuns' = taskRuns
       /\ Len(mails') > Len(mails) => (gout' = gout /\ taskRuns' = taskRuns)]_vars

\* no run is in flight
Quiescent == \A i \in Inv : pc[i] \in {"idle", "done"}

\* the sandbox of the invocation ended with the wrapper's success message
SandboxSucceeded(i) == sandbox[i].msg.present /\ sandbox[i].msg.success

\* how often the fingerprint h occurs in the output of the invocation
Occurrences(i, h) ==
    Cardinality({k \in DOMAIN sandbox[i].msg.data :
        generate_hash(sandbox[i].msg.data[k], hash_fields(tasks[arg[i]])) = h})

\* the sum of Occurrences over a set of invocations
RECURSIVE Observed(_, _)
Observed(runs, h) ==
    IF runs = {} THEN 0
    ELSE LET i == CHOOSE j \in runs : TRUE IN
         Occurrences(i, h) + Observed(runs \ {i}, h)

\* C16: a run whose sandbox succeeded with n output records ends with
\* items_found = n and with new_items equal to the number of Records it
\* created; a fingerprint of its output that was stored before creates no
\* Record, and each occurrence of a stored fingerprint raises the Record's
\* times_seen by one, so that once all runs are over every Record's
\* times_seen is the number of occurrences of its fingerprint in the outputs
\* of the job's runs.
C16_CountsMatchOutput ==
    /\ \A i \in Inv :
          (pc[i] = "done" /\ SandboxSucceeded(i)) =>
              /\ taskRuns[i].items_found = Len(sandbox[i].msg.data)
              /\ outcome[i].items_found = Len(sandbox[i].msg.data)
              /\ outcome[i].new_items = Cardinality({r \in items : r.run = i})
    /\ Quiescent =>
          \A r \in items :
              r.times_seen =
                  Observed({i \in Inv : SandboxSucceeded(i) /\ arg[i] = r.task},
                           r.unique_hash)

\* the routine raised inside the sandbox: the wrapper printed its failure
\* message (line 129)
RoutineThrew(i) == sandbox[i].msg.present /\ ~sandbox[i].msg.success

\* C17: when the routine throws inside the sandbox, the run never enters the
\* reconciliation loop, creates no Record, and ends FAILED with a non-empty
\* error_message.
C17_RoutineFailureRecorded ==
    \A i \in Inv :
        RoutineThrew(i) =>
            /\ pc[i] \notin {"read", "write"}
            /\ {r \in items : r.run = i} = {}
            /\ pc[i] = "done" =>
                   /\ taskRuns[i].status = "FAILED"
                   /\ taskRuns[i].error_message # ""

C19_SandboxResourcesReleased ==
    \A i \in Inv :
        pc[i] \notin {"idle", "queued", "container"} =>
            /\ sandbox[i].script # "written"
            /\ sandbox[i].created => sandbox[i].removed

\* C20: a container that ended, with whatever exit code, without the
\* wrapper's result message gives a failure result with the error
\* "No JSON output found", and its Run ends FAILED.
C20_NoMessageIsFailure ==
    \A i \in Inv :
        (sandbox[i].haslogs /\ ~sandbox[i].msg.present) =>
            /\ pc[i] \notin {"read", "write"}
            /\ pc[i] \in {"final", "savetask"} =>
                   /\ ~result[i].success
                   /\ result[i].error = NoJsonError
            /\ pc[i] = "done" =>
                   /\ taskRuns[i].status = "FAILED"
                   /\ taskRuns[i].error_message = NoJsonError

(* ---------------------- generate_hash, applied ------------------------ *)
coreVars == <<dbVars, taskVars, groupVars>>

\* two records and two field lists that select the same fields
InitHash ==
    /\ InitCommon
    /\ groups = [g \in GroupIds |-> GroupRow(TRUE, <<>>)]
    /\ \E d1 \in Dicts, d2 \in Dicts, f1 \in FieldLists :
       \E f2 \in {f \in FieldLists : Range(f) = Range(f1)} :
          hq = [NoHashQuery EXCEPT !.asked = TRUE, !.data1 = d1, !.data2 = d2,
                                   !.fields1 = f1, !.fields2 = f2]
    /\ pool = EnoughWorkers
    /\ test = NoTest
    /\ AppIdle

\* generate_hash(data1, fields1) and generate_hash(data2, fields2)
Fingerprint ==
    /\ hq.asked /\ ~hq.done
    /\ hq' = [hq EXCEPT !.done = TRUE,
                        !.hash1 = generate_hash_ordered(hq.data1, hq.fields1),
                        !.hash2 = generate_hash_ordered(hq.data2, hq.fields2)]
    /\ UNCHANGED <<coreVars, pool, test, appVars>>

NextHash == Fingerprint

SpecHash == InitHash /\ [][NextHash]_vars

\* C22: generate_hash gives two records the same fingerprint when each
\* selected field is present in both with the same value or absent from
\* both, whatever the order of the records' keys, the order of the field
\* list and the fields outside the selection.
SameSelectedValues(d1, d2, fields) ==
    \A k \in Range(fields) :
        /\ HasKey(d1, k) <=> HasKey(d2, k)
        /\ HasKey(d1, k) => Lookup(d1, k) = Lookup(d2, k)

C22_FingerprintIsOrderIndependent ==
    (/\ hq.done
     /\ Range(hq.fields1) = Range(hq.fields2)
     /\ SameSelectedValues(hq.data1, hq.data2, hq.fields1)) =>
        hq.hash1 = hq.hash2

\* the same two selected values in opposite key order, the field list in
\* opposite order, and a third field in one record only
C22_Witness ==
    /\ hq.done
    /\ hq.data1 = <<<<"title", 2>>, <<"url", 1>>>>
    /\ hq.data2 = <<<<"url", 1>>, <<"title", 2>>>>
    /\ hq.fields1 = <<"title", "url">>
    /\ hq.fields2 = <<"url", "title">>
    /\ hq.hash1 = hq.hash2

(* --------------------------- editing a job ---------------------------- *)
\* the target locations an operator gives a job
TargetUrls == {"url", "url2"}

\* admin.py, ScrapingTaskAdmin.save_model: the change form saves the job
\* with a new target_url
EditTask(t, u) ==
    /\ t \in DOMAIN tasks
    /\ u # tasks[t].target_url
    /\ tasks' = [tasks EXCEPT ![t].target_url = u]
    /\ UNCHANGED <<groups, taskRuns, items, nextItemId, now>>
    /\ UNCHANGED <<taskVars, groupVars, extVars>>

\* RunJob commands on job 1, whose target an operator changes between runs
NextEdit ==
    \/ RunJob(1)
    \/ EditTask(1, "url") \/ EditTask(1, "url2")
    \/ \E i \in Inv :
        \/ Begin(i)
        \/ \E b \in PlainBehaviours(ltask[i].generated_code) : Container(i, b, 1)
        \/ ReadItem(i)
        \/ WriteItem(i)
        \/ FinalUpdate(i)
        \/ SaveTask(i)
        \/ Handler(i)

SpecEdit == Init /\ [][NextEdit]_vars

\* C23: when a run touches an existing Record, the location the run
\* observed it at (the target_url the run read from its job) is in the
\* Record's source_urls afterwards, and source_urls holds no location twice.
C23_TouchMergesSourceLocation ==
    [][\A i \in Inv :
        (pc[i] = "write" /\ existing[i].id # 0 /\ idx'[i] = idx[i] + 1) =>
            \E r \in items' :
                /\ r.id = existing[i].id
                /\ ltask[i].target_url \in Range(r.source_urls)
                /\ \A a \in 1..Len(r.source_urls) : \A b \in 1..Len(r.source_urls) :
                       r.source_urls[a] = r.source_urls[b] => a = b]_vars

(* ------------------- test_scraping_task, lines 120-150 ----------------- *)
\* admin.py test_task: test_scraping_task.delay(task.id)
TestJob(t) ==
    /\ test.pc = "idle"
    /\ test' = [test EXCEPT !.pc = "queued", !.arg = t]
    /\ UNCHANGED <<coreVars, hq, pool, appVars>>

\* line 126: task = ScrapingTask.objects.get(id=task_id); DoesNotExist goes
\* to the handler (line 145)
TestLoad ==
    /\ test.pc = "queued"
    /\ IF test.arg \in DOMAIN tasks
       THEN test' = [test EXCEPT !.pc = "mark", !.task = tasks[test.arg]]
       ELSE test' = [test EXCEPT !.pc = "except"]
    /\ UNCHANGED <<coreVars, hq, pool, appVars>>

\* lines 127-131: test_status = 'TESTING', task.save() of the in-memory
\* task, then run_scraping_task(task_id) is called in the same process
TestMark ==
    /\ test.pc = "mark"
    /\ NextSlot \in Inv
    /\ LET task == [test.task EXCEPT !.test_status = "TESTING"] IN
       /\ tasks' = [tasks EXCEPT ![test.arg] = task]
       /\ test' = [test EXCEPT !.pc = "wait", !.task = task, !.inv = NextSlot]
    /\ pc' = [pc EXCEPT ![NextSlot] = "queued"]
    /\ arg' = [arg EXCEPT ![NextSlot] = test.arg]
    /\ UNCHANGED <<ltask, lrun, result, idx, existing, counts, err, outcome, sandbox, parent>>
    /\ UNCHANGED <<groups, taskRuns, items, nextItemId, now, groupVars, hq, pool, appVars>>

\* the in-memory task of the test as line 140 saves it
TestedTask(task, success, t) ==
    [task EXCEPT !.test_status = IF success THEN "PASSED" ELSE "FAILED",
                 !.last_test_at = t]

\* lines 131-143: run_scraping_task returned or raised; on a return the
\* in-memory task read at line 126 is saved with the verdict
TestEnd ==
    /\ test.pc = "wait"
    /\ pc[test.inv] = "done"
    /\ IF outcome[test.inv].kind = "returned" THEN
           /\ tasks' = [tasks EXCEPT ![test.arg] =
                  TestedTask(test.task, outcome[test.inv].success, now)]
           /\ test' = [test EXCEPT !.pc = "done", !.out = "returned"]
       ELSE
           /\ test' = [test EXCEPT !.pc = "except"]
           /\ UNCHANGED tasks
    /\ UNCHANGED <<groups, taskRuns, items, nextItemId, now>>
    /\ UNCHANGED <<taskVars, groupVars, hq, pool, appVars>>

\* lines 145-148: the handler reads the task again; DoesNotExist leaves the
\* handler
TestReload ==
    /\ test.pc = "except"
    /\ IF test.arg \in DOMAIN tasks
       THEN test' = [test EXCEPT !.pc = "fail", !.task = tasks[test.arg]]
       ELSE test' = [test EXCEPT !.pc = "done", !.out = "raised"]
    /\ UNCHANGED <<coreVars, hq, pool, appVars>>

\* lines 148-150: test_status = 'FAILED', task.save(), raise
TestFail ==
    /\ test.pc = "fail"
    /\ tasks' = [tasks EXCEPT ![test.arg] =
           [test.task EXCEPT !.test_status = "FAILED"]]
    /\ test' = [test EXCEPT !.pc = "done", !.out = "raised"]
    /\ UNCHANGED <<groups, taskRuns, items, nextItemId, now>>
    /\ UNCHANGED <<taskVars, groupVars, hq, pool, appVars>>

\* the sandbox of a tested job: it cannot be set up, or the routine
\* returns one record
TestBehaviours == {TmpFail, Ran(1, NoNoise, OkMsg(<<D1>>), ExitOk)}

\* a TestJob command and RunJob commands on job 1; every run takes time
NextTest ==
    \/ \E t \in {1, MissingTaskId} : TestJob(t)
    \/ RunJob(1)
    \/ TestLoad \/ TestMark \/ TestEnd \/ TestReload \/ TestFail
    \/ \E i \in Inv :
        \/ Begin(i)
        \/ \E b \in TestBehaviours : Container(i, b, 1)
        \/ ReadItem(i)
        \/ WriteItem(i)
        \/ FinalUpdate(i)
        \/ SaveTask(i)
        \/ Handler(i)

SpecTest == Init /\ [][NextTest]_vars

\* the step is one of invocation i
StepOf(i) ==
    pc'[i] # pc[i] \/ idx'[i] # idx[i] \/ existing'[i] # existing[i]

\* C24: the run a TestJob command executes creates no Record and leaves
\* every stored Record as it was (times_seen, last_seen, source_urls): no
\* step of that run changes the ScrapedItem table.
C24_TestJobLeavesRecordsAlone ==
    [][\A i \in Inv :
        (test.pc = "wait" /\ test.inv = i /\ StepOf(i)) => items' = items]_vars

\* C25: a job's stored average changes only when one of its runs ends with
\* a duration sample, and then to (old + sample) / 2 when the job had an
\* average (old = the average the run read with the job) and to the sample
\* when it had none; a TestJob command changes it through its run only.
C25_RollingAverage ==
    [][\A t \in TaskIds :
        IF \E i \in Inv : arg[i] = t /\ pc[i] = "savetask" /\ pc'[i] = "done"
        THEN LET i == CHOOSE j \in Inv : arg[j] = t /\ pc[j] = "savetask" /\ pc'[j] = "done"
                 sample == (lrun[i].completed_at - lrun[i].started_at) * AvgScale
             IN  /\ ~tasks'[t].avg_null
                 /\ tasks'[t].avg = IF ltask[i].avg_null THEN sample
                                    ELSE (ltask[i].avg + sample) \div 2
        ELSE /\ tasks'[t].avg_null = tasks[t].avg_null
             /\ tasks'[t].avg = tasks[t].avg]_vars

(* --------------------------- the worker pool --------------------------- *)
\* run_scraping_group and run_scraping_task are both Celery tasks: each
\* occupies one process of the worker from the moment it is picked up
\* until it returns or raises, the time it spends in .get() included.
BusyJobs == {i \in Inv : pc[i] \notin {"idle", "queued", "done"}}
BusyGroups == {g \in GInv : gpc[g] \notin {"idle", "queued", "done"}}
Busy == Cardinality(BusyJobs) + Cardinality(BusyGroups)

\* a free worker process picks up a queued run_scraping_task
WorkerBegin(i) ==
    /\ Busy < pool
    /\ Begin(i)

\* a free worker process picks up a queued run_scraping_group
WorkerGroupBegin(g) ==
    /\ Busy < pool
    /\ GroupBegin(g)

\* a worker of 1..MaxWorkers processes; group 1 in either mode
InitPool ==
    /\ InitCommon
    /\ \E par \in BOOLEAN :
          groups = (1 :> GroupRow(par, <<>>) @@ 2 :> GroupRow(TRUE, <<>>))
    /\ hq = NoHashQuery
    /\ pool \in 1..MaxWorkers
    /\ test = NoTest
    /\ AppIdle

\* RunGroup commands served by the pool
NextPool ==
    \/ \E g \in GInv : RunGroup(g, 1)
    \/ \E g \in GInv :
        \/ WorkerGroupBegin(g)
        \/ SeqStep(g)
        \/ ParJoin(g)
        \/ GroupNotify(g)
    \/ \E i \in Inv :
        \/ WorkerBegin(i)
        \/ \E b \in PlainBehaviours(ltask[i].generated_code) : Container(i, b, 1)
        \/ ReadItem(i)
        \/ WriteItem(i)
        \/ FinalUpdate(i)
        \/ SaveTask(i)
        \/ Handler(i)

SpecPool == InitPool /\ [][NextPool]_vars

\* every worker process is held by a group invocation that waits in .get()
\* for a job still in the queue
Starved ==
    /\ BusyJobs = {}
    /\ Cardinality(BusyGroups) = pool
    /\ \A g \in BusyGroups :
          /\ gpc[g] \in {"seqwait", "join"}
          /\ \E n \in 1..Len(gdisp[g]) : pc[gdisp[g][n]] = "queued"

\* C26: a group invocation never holds a worker process while it waits for
\* its jobs, so the pool is never starved: there is no state in which every
\* worker process is held by a group invocation waiting for a job that is
\* still queued (from such a state no group run completes).
C26_NoWorkerStarvation == ~Starved

(* ------------- apps/tasks: the execute command and its worker ---------- *)
\* views.py lines 30-52: POST execute (async) on a task whose generated_code
\* is not empty creates the TaskExecution with status 'pending'
Execute(code) ==
    /\ view.pc = "idle"
    /\ LET row == [NoExecution EXCEPT !.exists = TRUE, !.code = code] IN
       /\ executions' = row
       /\ view' = [pc |-> "commit", execution |-> row]
    /\ UNCHANGED <<coreVars, hq, pool, test, schedVars, deliv>>

\* views.py lines 57-58, 63: after the commit, queue_task calls
\* execute_scraper_task.delay(execution.id)
QueueTask ==
    /\ view.pc = "commit"
    /\ view' = [view EXCEPT !.pc = "handle"]
    /\ deliv' = [deliv EXCEPT ![1].pc = "queued"]
    /\ UNCHANGED <<coreVars, hq, pool, test, schedVars, executions>>

\* views.py lines 60-61: the handle is set on the in-memory execution and
\* execution.save() writes every column of it
SaveHandle ==
    /\ view.pc = "handle"
    /\ LET row == [view.execution EXCEPT !.handle = "id"] IN
       /\ executions' = row
       /\ view' = [pc |-> "done", execution |-> row]
    /\ UNCHANGED <<coreVars, hq, pool, test, schedVars, deliv>>

\* the broker delivers the message of delivery 1 once more
Redeliver(d) ==
    /\ d > 1
    /\ deliv[1].pc # "idle"
    /\ deliv[d].pc = "idle"
    /\ deliv' = [deliv EXCEPT ![d].pc = "queued"]
    /\ UNCHANGED <<coreVars, hq, pool, test, schedVars, executions, view>>

\* tasks.py line 25: execution = TaskExecution.objects.get(id=execution_id)
WorkerGet(d) ==
    /\ deliv[d].pc = "queued"
    /\ deliv' = [deliv EXCEPT ![d].pc = "running", ![d].execution = executions]
    /\ UNCHANGED <<coreVars, hq, pool, test, schedVars, executions, view>>

\* tasks.py lines 29-30: status = 'running'; execution.save()
WorkerRunning(d) ==
    /\ deliv[d].pc = "running"
    /\ LET row == [deliv[d].execution EXCEPT !.status = "running"] IN
       /\ executions' = row
       /\ deliv' = [deliv EXCEPT ![d].pc = "validate", ![d].execution = row]
    /\ UNCHANGED <<coreVars, hq, pool, test, schedVars, view>>

\* scraper_service.py lines 88-109: validate_code
validate_code(code) == code = "valid"

\* what the routine does when it is executed: its entry point returns a
\* structured result whose success indicator is true, returns one whose
\* success indicator is false, or raises
RoutineOutcomes == {"ok", "unsuccessful", "raised"}

\* scraper_service.py lines 22-63: whatever the entry point returns becomes the
\* 'data' of a result with 'success': True (lines 46-55); an exception becomes
\* a result with 'success': False (lines 57-63)
execute_scraper_async(o) == IF o = "raised" THEN "failed" ELSE "success"

\* tasks.py lines 35-47: an invalid code ends the execution as failed
\* (lines 38-44); a valid one is executed (scraper_service.py lines 71-86:
\* execute_scraper returns the result of execute_scraper_async, or a failure;
\* it never raises)
WorkerValidate(d) ==
    /\ deliv[d].pc = "validate"
    /\ IF ~validate_code(deliv[d].execution.code) THEN
           LET row == [deliv[d].execution EXCEPT
                          !.status = "failed", !.error_message = "Code validation failed",
                          !.completed_at = now] IN
           /\ executions' = row
           /\ deliv' = [deliv EXCEPT ![d].pc = "done", ![d].execution = row]
       ELSE
           /\ \E o \in RoutineOutcomes :
                 deliv' = [deliv EXCEPT ![d].pc = "finish", ![d].routine = o,
                                        ![d].result = execute_scraper_async(o)]
           /\ UNCHANGED executions
    /\ UNCHANGED <<coreVars, hq, pool, test, schedVars, view>>

\* tasks.py lines 50-60: the result is set on the in-memory execution and
\* execution.save() writes every column of it
WorkerFinish(d) ==
    /\ deliv[d].pc = "finish"
    /\ LET row == IF deliv[d].result = "success"
                  THEN [deliv[d].execution EXCEPT
                           !.status = "success", !.scraped_data = "data",
                           !.completed_at = now]
                  ELSE [deliv[d].execution EXCEPT
                           !.status = "failed", !.error_message = "error",
                           !.completed_at = now] IN
       /\ executions' = row
       /\ deliv' = [deliv EXCEPT ![d].pc = "done", ![d].execution = row]
    /\ UNCHANGED <<coreVars, hq, pool, test, schedVars, view>>

NextExec ==
    \/ \E code \in {"valid", "invalid"} : Execute(code)
    \/ QueueTask
    \/ SaveHandle
    \/ \E d \in Deliveries :
        \/ Redeliver(d)
        \/ WorkerGet(d)
        \/ WorkerRunning(d)
        \/ WorkerValidate(d)
        \/ WorkerFinish(d)

SpecExec == Init /\ [][NextExec]_vars

\* TaskExecution statuses an execution ends in
TerminalExecution == {"success", "failed"}

\* C27: once the stored status of a TaskExecution is success or failed, no
\* step (the command's save of the queue handle, a status update of any
\* delivery) makes it pending or running again.
C27_TerminalExecutionStaysTerminal ==
    [][executions.status \in TerminalExecution =>
          executions'.status \notin {"pending", "running"}]_vars

\* C28: a group invocation runs the active jobs of its group and no other:
\* every job it queues, and every job a TaskRun exists for, is an active job
\* of the invocation's group, and the result it returns counts each of
\* those jobs once (tasks_run is their number).
C28_RunsExactlyTheActiveJobs ==
    /\ \A i \in Inv :
          (pc[i] # "idle" \/ taskRuns[i].exists) =>
              /\ parent[i] \in GInv
              /\ arg[i] \in DOMAIN tasks
              /\ tasks[arg[i]].is_active
              /\ tasks[arg[i]].group = garg[parent[i]]
    /\ \A g \in GInv :
          gout[g].kind = "returned" =>
              LET selected == {t \in TaskIds :
                                  tasks[t].group = garg[g] /\ tasks[t].is_active}
              IN  /\ gout[g].tasks_run = Cardinality(selected)
                  /\ Len(gdisp[g]) = Cardinality(selected)
                  /\ {arg[gdisp[g][n]] : n \in 1..Len(gdisp[g])} = selected
                  /\ \A n \in 1..Len(gdisp[g]) : taskRuns[gdisp[g][n]].exists

\* group 1 returned tasks_run = 3: its three active jobs have a TaskRun
\* each, its inactive job 4 and job 5 of group 2 have none
C28_Witness ==
    \E g \in GInv :
        /\ garg[g] = 1
        /\ gout[g].kind = "returned"
        /\ gout[g].tasks_run = 3
        /\ ~tasks[4].is_active /\ tasks[4].group = 1
        /\ \A i \in Inv : taskRuns[i].exists /\ taskRuns[i].task \in {1, 2, 3}

(* ------------------- jobs with and without a schema -------------------- *)
\* routines that emit records differing in title, or in price only
SchemaBehaviours ==
    {Ran(1, NoNoise, OkMsg(d), ExitOk) : d \in {<<D1, D3>>, <<D2>>}}

\* RunJob commands on job 1 (no schema) and job 2 (schema keys title, price)
NextSchema ==
    \/ \E t \in {1, 2} : RunJob(t)
    \/ \E i \in Inv :
        \/ Begin(i)
        \/ \E b \in SchemaBehaviours : Container(i, b, 0)
        \/ ReadItem(i)
        \/ WriteItem(i)
        \/ FinalUpdate(i)
        \/ SaveTask(i)
        \/ Handler(i)

SpecSchema == Init /\ [][NextSchema]_vars

\* records x and y have the same value for each field of F, or lack it both
Agree(x, y, F) ==
    \A f \in F :
        /\ f \in DOMAIN x.kv <=> f \in DOMAIN y.kv
        /\ f \in DOMAIN x.kv => x.kv[f] = y.kv[f]

\* the fields the claim selects for job t
SelectedFields(t) ==
    IF tasks[t].extraction_schema # {} THEN tasks[t].extraction_schema
    ELSE {"title", "url", "description"}

\* the records of the runs of job t that ended SUCCESS
Reconciled(t) ==
    UNION {{sandbox[i].msg.data[k] : k \in 1..Len(sandbox[i].msg.data)} :
              i \in {j \in Inv : /\ pc[j] = "done" /\ arg[j] = t
                                  /\ taskRuns[j].status = "SUCCESS"}}

\* C29: a Record's fingerprint is made of the job's schema keys when the
\* job declares a schema and of title, url, description otherwise; two
\* reconciled records of a job that differ in a selected field are held by
\* two different Records of the job.
C29_FingerprintFollowsSchema ==
    \A t \in TaskIds :
        /\ \A r \in items :
              r.task = t =>
                  /\ DOMAIN r.unique_hash = SelectedFields(t) \cap DOMAIN r.data.kv
                  /\ \A f \in DOMAIN r.unique_hash : r.unique_hash[f] = r.data.kv[f]
        /\ \A x \in Reconciled(t) : \A y \in Reconciled(t) :
              ~Agree(x, y, SelectedFields(t)) =>
                  \E r \in items, q \in items :
                      /\ r.task = t /\ q.task = t /\ r.id # q.id
                      /\ Agree(r.data, x, SelectedFields(t))
                      /\ Agree(q.data, y, SelectedFields(t))

\* a run of job 2 ended SUCCESS on two records that differ in price only,
\* and job 2 has a Record for each; a run of job 1 ended SUCCESS on the
\* same two records and job 1 has one Record, seen twice
C29_Witness ==
    /\ {D1, D3} \subseteq Reconciled(2)
    /\ \E r \in items, q \in items :
          r.task = 2 /\ q.task = 2 /\ r.data = D1 /\ q.data = D3
    /\ {D1, D3} \subseteq Reconciled(1)
    /\ Cardinality({r \in items : r.task = 1}) = 1
    /\ \E r \in items : r.task = 1 /\ r.times_seen = 2

(* ------------------- runs of one job as time passes -------------------- *)
\* a routine that returns one record, in one tick
TouchBehaviours == {Ran(1, NoNoise, OkMsg(<<D1>>), ExitOk)}

\* RunJob commands on job 1
NextTouch ==
    \/ RunJob(1)
    \/ \E i \in Inv :
        \/ Begin(i)
        \/ \E b \in TouchBehaviours : Container(i, b, 1)
        \/ ReadItem(i)
        \/ WriteItem(i)
        \/ FinalUpdate(i)
        \/ SaveTask(i)
        \/ Handler(i)

SpecTouch == Init /\ [][NextTouch]_vars

\* C31: a Record keeps its owning run, first_seen, fingerprint and payload
\* for as long as it is stored, touches included, and a new Record's owning
\* run is the run whose step inserted it.
C31_TouchKeepsCreationFields ==
    [][\A r \in items' :
        \/ \E q \in items :
              /\ q.id = r.id
              /\ q.task = r.task /\ q.run = r.run /\ q.first_seen = r.first_seen
              /\ q.unique_hash = r.unique_hash /\ q.data = r.data
              /\ q.source_urls = r.source_urls
        \/ /\ r.id = nextItemId
           /\ pc[r.run] = "write" /\ StepOf(r.run)
           /\ r.times_seen = DefaultTimesSeen]_vars

\* a Record created by one run at one time was touched later by another
\* run that has ended
C31_Witness ==
    \E r \in items : \E i \in Inv :
        /\ i # r.run /\ arg[i] = r.task
        /\ pc[i] = "done" /\ taskRuns[i].status = "SUCCESS"
        /\ taskRuns[i].items_found > 0
        /\ r.times_seen > DefaultTimesSeen
        /\ r.first_seen < r.last_seen

(* ------------------------ deleting rows (admin) ------------------------ *)
\* admin.py TaskRunAdmin (delete is permitted), while no run is in flight:
\* the TaskRun is deleted, and with it the ScrapedItems whose run it is (models.py line 89, CASCADE)
DeleteRun(i) ==
    /\ Quiescent
    /\ taskRuns[i].exists
    /\ taskRuns' = [taskRuns EXCEPT ![i] = NoRun]
    /\ items' = {r \in items : r.run # i}
    /\ UNCHANGED <<tasks, groups, nextItemId, now>>
    /\ UNCHANGED <<taskVars, groupVars, extVars>>

\* admin.py ScrapingTaskAdmin: the ScrapingTask is deleted, and with it its
\* TaskRuns (models.py line 70) and its ScrapedItems (line 88)
DeleteTask(t) ==
    /\ Quiescent
    /\ t \in DOMAIN tasks
    /\ tasks' = [x \in DOMAIN tasks \ {t} |-> tasks[x]]
    /\ taskRuns' = [i \in Inv |->
                      IF taskRuns[i].exists /\ taskRuns[i].task = t THEN NoRun
                      ELSE taskRuns[i]]
    /\ items' = {r \in items : r.task # t}
    /\ UNCHANGED <<groups, nextItemId, now>>
    /\ UNCHANGED <<taskVars, groupVars, extVars>>

\* runs of job 1, and an operator who deletes runs and the job between them
NextDelete ==
    \/ RunJob(1)
    \/ \E i \in Inv : DeleteRun(i)
    \/ DeleteTask(1)
    \/ \E i \in Inv :
        \/ Begin(i)
        \/ \E b \in PlainBehaviours(ltask[i].generated_code) : Container(i, b, 0)
        \/ ReadItem(i)
        \/ WriteItem(i)
        \/ FinalUpdate(i)
        \/ SaveTask(i)
        \/ Handler(i)

SpecDelete == Init /\ [][NextDelete]_vars

\* C32: removing a Run whose Job stays removes no Record; removing a Job
\* leaves none of its Runs and none of its Records.
C32_RunDoesNotOwnRecords ==
    [][/\ \A i \in Inv :
            (/\ taskRuns[i].exists /\ ~taskRuns'[i].exists
             /\ taskRuns[i].task \in DOMAIN tasks') =>
                \A r \in items : r.run = i => r \in items'
       /\ \A t \in DOMAIN tasks \ DOMAIN tasks' :
            /\ \A i \in Inv : ~(taskRuns'[i].exists /\ taskRuns'[i].task = t)
            /\ \A r \in items' : r.task # t]_vars

(* ------------------ the routine's own success indicator ---------------- *)
\* a JSON string among the items: no hash field is a substring of it, so
\* generate_hash's `field in data` is False for every field, nothing is
\* selected and nothing raises (common/utils.py lines 20-22)
TextItem(text) == [isdict |-> TRUE, kv |-> [str |-> text]]

\* executors.py lines 124-127: the wrapper prints {"success": True, "data":
\* result} whatever the entry point returned.  For a returned {"success":
\* False, "error": ...} the 'data' is that dict, and line 41 iterates its keys
UnsuccessfulResult == <<TextItem("success"), TextItem("error")>>

\* a routine whose entry point returns a result with a false success indicator
ResultBehaviours == {Ran(1, NoNoise, OkMsg(UnsuccessfulResult), ExitOk)}

\* both engines, each executing such a routine
NextResult ==
    \/ RunJob(1)
    \/ \E i \in Inv :
        \/ Begin(i)
        \/ \E b \in ResultBehaviours : Container(i, b, 0)
        \/ ReadItem(i)
        \/ WriteItem(i)
        \/ FinalUpdate(i)
        \/ SaveTask(i)
        \/ Handler(i)
    \/ Execute("valid")
    \/ QueueTask
    \/ SaveHandle
    \/ \E d \in Deliveries :
        \/ Redeliver(d)
        \/ WorkerGet(d)
        \/ WorkerRunning(d)
        \/ WorkerValidate(d)
        \/ WorkerFinish(d)

SpecResult == Init /\ [][NextResult]_vars

\* C33: when the routine's entry point returned a result whose success
\* indicator is false, the run has ended FAILED (failed) and the result
\* returned to the caller has success = false.
C33_UnsuccessfulResultFailsRun ==
    /\ \A d \in Deliveries :
          (deliv[d].pc = "done" /\ deliv[d].routine = "unsuccessful") =>
              /\ deliv[d].execution.status = "failed"
              /\ deliv[d].result = "failed"
    /\ \A i \in Inv :
          (pc[i] = "done" /\ sandbox[i].msg.data = UnsuccessfulResult) =>
              /\ taskRuns[i].status = "FAILED"
              /\ ~outcome[i].success

(* ------------------------- counting observations ----------------------- *)
\* the items the runs 1..n of job t reconciled (executors.py lines 68, 74:
\* items_processed counts one per item inserted or touched)
RECURSIVE ItemsReconciled(_, _)
ItemsReconciled(t, n) ==
    IF n = 0 THEN 0
    ELSE ItemsReconciled(t, n - 1)
         + (IF taskRuns[n].exists /\ taskRuns[n].task = t
            THEN taskRuns[n].items_found ELSE 0)

\* a routine that returns the record D1, once or twice
CountBehaviours ==
    {Ran(1, NoNoise, OkMsg(d), ExitOk) : d \in {<<D1>>, <<D1, D1>>}}

\* overlapping runs of job 1
NextCount ==
    \/ RunJob(1)
    \/ \E i \in Inv :
        \/ Begin(i)
        \/ \E b \in CountBehaviours : Container(i, b, 0)
        \/ ReadItem(i)
        \/ WriteItem(i)
        \/ FinalUpdate(i)
        \/ SaveTask(i)
        \/ Handler(i)

SpecCount == Init /\ [][NextCount]_vars

\* C34: with no run in flight, times_seen of a Record is the number of
\* observations reconciled for its (job, fingerprint) pair, overlapping runs
\* included.  Every run of job 1 emits the record D1 only, so the observations
\* of the pair are the items the runs of job 1 reconciled.
C34_NoLostIncrement ==
    Quiescent => \A r \in items : r.times_seen = ItemsReconciled(r.task, MaxInv)

(* ----------------------- the job's configuration ----------------------- *)
\* models.py, ScrapingTask: the fields an operator sets (admin.py fieldsets),
\* as opposed to those the engine maintains (average, test status)
Configuration(task) ==
    <<task.is_active, task.generated_code, task.execution_order, task.target_url,
      task.extraction_schema>>

\* C35: a step of a run or of a test of a job changes no configuration field
\* of any Job, so an edit committed while the run is in flight stays in effect
\* after the run's saves.
C35_RunKeepsConfiguration ==
    [][(taskVars' # taskVars \/ test' # test) =>
          \A t \in DOMAIN tasks : Configuration(tasks'[t]) = Configuration(tasks[t])]_vars

(* --------------------------- runs that ended --------------------------- *)
\* models.py TaskRun.STATUS_CHOICES: the statuses a Run does not end in
UnfinishedRun == {"PENDING", "RUNNING"}

\* the execute command has returned and every delivery of its message that a
\* worker took has returned
ExecutionEnded ==
    /\ view.pc = "done"
    /\ \E d \in Deliveries : deliv[d].pc = "done"
    /\ \A d \in Deliveries : deliv[d].pc \in {"idle", "done"}

\* C36: once execute_task has returned or raised, its Run is not PENDING or
\* RUNNING; once execute_scraper_task has returned or raised (and nothing
\* else works on the execution), the execution is not pending or running.
C36_EndedRunIsTerminal ==
    /\ \A i \in Inv :
          (pc[i] = "done" /\ taskRuns[i].exists) =>
              taskRuns[i].status \notin UnfinishedRun
    /\ ExecutionEnded => executions.status \in TerminalExecution

\* C37: a stored Run has a completion timestamp exactly when its status is
\* terminal (completed_at is NULL, here -1, for PENDING and RUNNING).
C37_CompletedIffTerminal ==
    /\ \A i \in Inv :
          taskRuns[i].exists =>
              (taskRuns[i].completed_at # -1 <=> taskRuns[i].status \notin UnfinishedRun)
    /\ executions.exists =>
          (executions.completed_at # -1 <=> executions.status \in TerminalExecution)

(* ---------------- apps/tasks: execute_scheduled_scraper ---------------- *)
\* Celery Beat sends execute_scheduled_scraper(task_id), some time after the
\* previous trigger was handled
ScheduledTrigger(t) ==
    /\ sched.pc \in {"idle", "done"}
    /\ sched.triggers < MaxTriggers
    /\ sched' = [NoSched EXCEPT !.pc = "queued", !.arg = t,
                                !.triggers = sched.triggers + 1,
                                !.started = sched.started]
    /\ now' = now + 1
    /\ UNCHANGED <<tasks, groups, taskRuns, items, nextItemId>>
    /\ UNCHANGED <<taskVars, groupVars, hq, pool, test>>
    /\ UNCHANGED <<executions, view, deliv, atasks, sexecs>>

\* the trigger that looks at the active flag only
SkipsInactiveOnly(task) == ~task.is_active

\* tasks.py lines 168-174: the two conditions under which the trigger returns
\* a failure before it does anything
Skips(task) == ~task.is_active \/ task.generated_code = ""

\* tasks.py lines 166-174 and 190-192: Task.objects.get and the two checks
ScheduledGet ==
    /\ sched.pc = "queued"
    /\ IF sched.arg \notin DOMAIN atasks \/ Skips(atasks[sched.arg])
       THEN sched' = [sched EXCEPT !.pc = "done", !.out = "failure"]
       ELSE sched' = [sched EXCEPT !.pc = "create", !.task = atasks[sched.arg]]
    /\ UNCHANGED <<coreVars, hq, pool, test, executions, view, deliv, atasks, sexecs>>

\* tasks.py lines 177-181: TaskExecution.objects.create(status='pending')
ScheduledCreate ==
    /\ sched.pc = "create"
    /\ sexecs' = Append(sexecs, [task |-> sched.arg, status |-> "pending",
                                 completed_at |-> -1])
    /\ sched' = [sched EXCEPT !.pc = "stamp", !.execution = Len(sexecs) + 1]
    /\ UNCHANGED <<coreVars, hq, pool, test, executions, view, deliv, atasks>>

\* tasks.py lines 184-185: last_scheduled_run is set on the in-memory task
\* and task.save() writes every column of it
ScheduledStamp ==
    /\ sched.pc = "stamp"
    /\ LET row == [sched.task EXCEPT !.last_scheduled_run = now] IN
       /\ atasks' = [atasks EXCEPT ![sched.arg] = row]
       /\ sched' = [sched EXCEPT !.pc = "run", !.task = row]
    /\ UNCHANGED <<coreVars, hq, pool, test, executions, view, deliv, sexecs>>

\* tasks.py line 188 calls execute_scraper_task; its lines 25-30: the
\* execution is marked running
ScheduledRun ==
    /\ sched.pc = "run"
    /\ sexecs' = [sexecs EXCEPT ![sched.execution].status = "running"]
    /\ sched' = [sched EXCEPT !.pc = "execute"]
    /\ UNCHANGED <<coreVars, hq, pool, test, executions, view, deliv, atasks>>

\* tasks.py lines 33-67, on the stored task of the execution (line 26): an
\* invalid routine fails the execution; a valid one is started, and the
\* execution ends as the scraper's result says
ScheduledExecute ==
    /\ sched.pc = "execute"
    /\ LET code == atasks[sexecs[sched.execution].task].generated_code IN
       IF ~validate_code(code) THEN
           /\ sexecs' = [sexecs EXCEPT ![sched.execution].status = "failed",
                                       ![sched.execution].completed_at = now]
           /\ sched' = [sched EXCEPT !.pc = "done", !.out = "failure"]
       ELSE
           \E o \in RoutineOutcomes :
               LET res == execute_scraper_async(o) IN
               /\ sexecs' = [sexecs EXCEPT ![sched.execution].status = res,
                                           ![sched.execution].completed_at = now]
               /\ sched' = [sched EXCEPT
                      !.pc = "done", !.started = sched.started + 1,
                      !.out = IF res = "success" THEN "success" ELSE "failure"]
    /\ UNCHANGED <<coreVars, hq, pool, test, executions, view, deliv, atasks>>

\* views.py, TaskViewSet (a ModelViewSet): a client changes the active flag
\* or the routine of a task
UpdateTask(t) ==
    /\ t \in DOMAIN atasks
    /\ \/ atasks' = [atasks EXCEPT ![t].is_active = ~atasks[t].is_active]
       \/ \E code \in {"", "valid", "invalid"} :
             /\ code # atasks[t].generated_code
             /\ atasks' = [atasks EXCEPT ![t].generated_code = code]
    /\ UNCHANGED <<coreVars, hq, pool, test, executions, view, deliv, sexecs, sched>>

\* scheduled triggers, one after the other, while a client edits task 1
NextSched ==
    \/ \E t \in DOMAIN InitATasks \cup {MissingATaskId} : ScheduledTrigger(t)
    \/ ScheduledGet
    \/ ScheduledCreate
    \/ ScheduledStamp
    \/ ScheduledRun
    \/ ScheduledExecute
    \/ UpdateTask(1)

SpecSched == Init /\ [][NextSched]_vars

\* C38: a scheduled trigger that finds its task inactive or without a
\* generated routine returns a failure and has no effect: no execution is
\* created, no task row (last_scheduled_run) changes, no scraper is started.
C38_SkippedTriggerHasNoEffect ==
    [][(/\ sched.pc = "queued" /\ sched' # sched
        /\ sched.arg \in DOMAIN atasks
        /\ (~atasks[sched.arg].is_active \/ atasks[sched.arg].generated_code = ""))
       => /\ sched'.pc = "done" /\ sched'.out = "failure"
          /\ sched'.execution = 0
          /\ atasks' = atasks
          /\ sexecs' = sexecs
          /\ sched'.started = sched.started]_vars

\* a trigger was skipped on a task without a routine, after an earlier
\* trigger had created an execution and started a scraper
C38_Witness ==
    /\ sched.pc = "done" /\ sched.out = "failure" /\ sched.execution = 0
    /\ sched.arg \in DOMAIN atasks
    /\ atasks[sched.arg].is_active /\ atasks[sched.arg].generated_code = ""
    /\ sexecs # <<>>
    /\ sched.started > 0

\* C21: a container killed by the isolation boundary for exceeding its
\* memory ceiling (abnormal exit) gives a failed run: nothing it printed
\* before the kill is reconciled, and its Run never ends SUCCESS.
C21_KilledSandboxIsFailure ==
    \A i \in Inv :
        sandbox[i].exit = ExitKilled =>
            /\ pc[i] \notin {"read", "write"}
            /\ {r \in items : r.run = i} = {}
            /\ pc[i] = "done" => taskRuns[i].status = "FAILED"

\* C30: the result of a sandbox execution depends on the wrapper's final
\* message only: two executions whose logs end with the same message get
\* the same result (success flag, records, error), whatever else their logs
\* hold.
C30_ResultDependsOnMessageOnly ==
    \A i \in Inv : \A j \in Inv :
        (/\ sandbox[i].haslogs /\ sandbox[j].haslogs
         /\ sandbox[i].msg.present
         /\ sandbox[i].msg = sandbox[j].msg
         /\ pc[i] \in {"read", "write", "final", "savetask", "handler"}
         /\ pc[j] \in {"read", "write", "final", "savetask", "handler"}) =>
            /\ result[i].success = result[j].success
            /\ result[i].data = result[j].data
            /\ result[i].error = result[j].error
====
